---- MODULE Spec2Model ----
(***************************************************************************)
(* A model of the tiered usage-control pipeline of the veteran chat        *)
(* assistant: subscription tier resolution, the in-memory and the          *)
(* counter-store rate limiters, the daily quota, the send-message route    *)
(* and the conversation store wrapper.                                     *)
(*                                                                         *)
(* The specifications that share the module:                               *)
(*   SpecTier      SubscriptionService.determineUserTier on bounded inputs *)
(*   SpecLimiter   the in-memory RateLimiter behind auth/verify-user       *)
(*   SpecStore     the conversation and message operations of              *)
(*                 AirtableService                                         *)
(*   SpecLegacy    AirtableService.storeConversationMessages               *)
(*   Spec          concurrent POST /api/chat/send-message requests         *)
(*   SpecUserLimit AirtableService.checkUserRateLimit                      *)
(*   SpecSession   SessionManager                                          *)
(*   SpecAI        AIService.generateResponse and its provider fallback    *)
(*   SpecTierRoute GET /api/user/tier                                      *)
(*   SpecSearch    AirtableService.searchOpportunities / searchResources   *)
(*   SpecHistory   gatherTieredConversationContext                         *)
(*   SpecEnsure    ensureTablesInitialized and initializeTables            *)
(***************************************************************************)
EXTENDS Integers, Sequences, FiniteSets, TLC

VARIABLES
    tierIn,      \* SpecTier: the subscriptionStatus argument
    tierOut,     \* SpecTier: the UserServiceTier returned, or NoTier
    limNow,      \* SpecLimiter: Date.now() in ticks
    requests,    \* SpecLimiter: RateLimiter.requests (identifier -> entry)
    limLast,     \* SpecLimiter: the last call and what it returned
    limAllowed,  \* SpecLimiter: history, allowed calls per identifier in its current window
    convs,       \* SpecStore: rows of the Conversations table
    msgs,        \* SpecStore: rows of the Messages table, in creation order
    legacy,      \* SpecStore: rows written by AirtableService.storeConversationMessages
    ops,         \* SpecStore: the store operations in progress, one per caller slot
    req,         \* Spec: the send-message requests in progress, one per slot
    window,      \* Spec: Math.floor(Date.now() / windowMs), the minute index
    faults,      \* Spec: history, the calls to the counter store that have thrown
    rateCount,   \* Spec: counter store keys ratelimit:{user}:{endpoint}:{window}
    dailyCount,  \* Spec: counter store keys user:{user}:messages:{date}
    tierCache,   \* Spec: counter store keys user:{user}:tier
    allowedCalls,\* Spec: history, checkRateLimit calls answered allowed=true per user and window
    invoked,     \* Spec: history, model invocations per user and day
    sent,        \* Spec: history, the requests received so far
    userHour,    \* SpecUserLimit: the hour window of the subscription rate limit
    userCalls,   \* SpecUserLimit: history, calls answered allowed per user in the hour
    userLast,    \* SpecUserLimit: the last answer of checkUserRateLimit
    sessNow,     \* SpecSession: Date.now() in ticks
    sessions,    \* SpecSession: SessionManager.sessions (id -> session)
    sessMade,    \* SpecSession: the session ids handed out so far
    sessDead,    \* SpecSession: history, ids removed by timeout, cleanup or destroy
    sessLast,    \* SpecSession: the last validateSession call and its result
    ai,          \* SpecAI: the generateResponse calls in progress, one per slot
    tierReq,     \* SpecTierRoute: the GET /api/user/tier request in progress
    tables,      \* SpecSearch: the opportunities and Resources tables (rows, or missing)
    searchLast,  \* SpecSearch: the last search call and its result
    histConv,    \* SpecHistory: the roles of the stored messages of the conversation, oldest first
    histLast,    \* SpecHistory: the last history call on the conversation and its result
    tableRefs,   \* SpecEnsure: the module variable `tables` of airtable.ts (key -> reference)
    tablesInitialized, \* SpecEnsure: the module flag of the same name
    ensure,      \* SpecEnsure: the ensureTablesInitialized calls in progress, one per caller
    initRuns,    \* SpecEnsure: history, the number of initializeTables runs started
    ensReturned  \* SpecEnsure: history, some ensureTablesInitialized call has returned

tierVars  == <<tierIn, tierOut>>
limVars   == <<limNow, requests, limLast, limAllowed>>
storeVars == <<convs, msgs, legacy, ops>>
pipeVars  == <<req, window, faults, rateCount, dailyCount, tierCache, allowedCalls, invoked, sent>>
baseVars  == <<tierVars, limVars, storeVars, pipeVars>>

userLimVars == <<userHour, userCalls, userLast>>
sessVars    == <<sessNow, sessions, sessMade, sessDead, sessLast>>
aiVars      == <<ai>>
tierRouteVars == <<tierReq>>
searchVars  == <<tables, searchLast>>
histVars    == <<histConv, histLast>>
ensureVars  == <<tableRefs, tablesInitialized, ensure, initRuns, ensReturned>>
auxVars     == <<userLimVars, sessVars, aiVars, tierRouteVars, searchVars, histVars,
                 ensureVars>>

\* the variables of the other added components, per component
otherThanUserLim   == <<sessVars, aiVars, tierRouteVars, searchVars, histVars, ensureVars>>
otherThanSess      == <<userLimVars, aiVars, tierRouteVars, searchVars, histVars, ensureVars>>
otherThanAI        == <<userLimVars, sessVars, tierRouteVars, searchVars, histVars, ensureVars>>
otherThanTierRoute == <<userLimVars, sessVars, aiVars, searchVars, histVars, ensureVars>>
otherThanSearch    == <<userLimVars, sessVars, aiVars, tierRouteVars, histVars, ensureVars>>
otherThanHist      == <<userLimVars, sessVars, aiVars, tierRouteVars, searchVars, ensureVars>>
otherThanEnsure    == <<userLimVars, sessVars, aiVars, tierRouteVars, searchVars, histVars>>

vars      == <<baseVars, auxVars>>

Max(a, b) == IF a >= b THEN a ELSE b
Min(a, b) == IF a <= b THEN a ELSE b

(***************************************************************************)
(* Subscription tiers                                                      *)
(***************************************************************************)

\* enum SubscriptionTier: the values are the status strings themselves
FREE    == "Free"
PREMIUM == "Premium"
FOUNDER == "Founder Club"
SubscriptionTier == {FREE, PREMIUM, FOUNDER}

\* Strings are sequences of atoms; " " is the one whitespace atom.  An atom
\* such as "Founder Club" stands for that exact spelling.
StatusAtoms == {" ", "Founder Club", "Premium", "Free", "free", "premium", "paid"}
IsSpace(a) == a = " "

\* bound: the longest status string, in atoms
MaxStatusLen == 3

RECURSIVE TrimLeft(_)
TrimLeft(s) == IF s # <<>> /\ IsSpace(Head(s)) THEN TrimLeft(Tail(s)) ELSE s

RECURSIVE TrimRight(_)
TrimRight(s) ==
    IF s # <<>> /\ IsSpace(s[Len(s)]) THEN TrimRight(SubSeq(s, 1, Len(s) - 1)) ELSE s

\* String.prototype.trim
Trim(s) == TrimRight(TrimLeft(s))

\* a string argument that may be undefined
Undefined  == [def |-> FALSE, s |-> <<>>]
Str(s)     == [def |-> TRUE, s |-> s]

\* the three static configuration objects of determineUserTier
FounderTier ==
    [tier |-> FOUNDER, hasFullAccess |-> TRUE, modelToUse |-> "gpt-4o-mini",
     features |-> [opportunities |-> TRUE, matches |-> TRUE, resources |-> TRUE,
                   fullMemory |-> TRUE, personalizedGreeting |-> TRUE,
                   webSearch |-> TRUE, smartRouting |-> TRUE],
     limits |-> [messagesPerDay |-> 1000, conversationHistory |-> 25, maxTokens |-> 2000]]

PremiumTier ==
    [tier |-> PREMIUM, hasFullAccess |-> TRUE, modelToUse |-> "gpt-4o-mini",
     features |-> [opportunities |-> TRUE, matches |-> TRUE, resources |-> TRUE,
                   fullMemory |-> TRUE, personalizedGreeting |-> TRUE,
                   webSearch |-> TRUE, smartRouting |-> TRUE],
     limits |-> [messagesPerDay |-> 500, conversationHistory |-> 20, maxTokens |-> 1500]]

\* mutant: the Free configuration with the two paid lookups switched on
FreeTierPaidLookups ==
    [tier |-> FREE, hasFullAccess |-> FALSE, modelToUse |-> "gpt-3.5-turbo",
     features |-> [opportunities |-> TRUE, matches |-> TRUE, resources |-> TRUE,
                   fullMemory |-> FALSE, personalizedGreeting |-> FALSE,
                   webSearch |-> FALSE, smartRouting |-> FALSE],
     limits |-> [messagesPerDay |-> 50, conversationHistory |-> 3, maxTokens |-> 500]]

FreeTier ==
    [tier |-> FREE, hasFullAccess |-> FALSE, modelToUse |-> "gpt-3.5-turbo",
     features |-> [opportunities |-> FALSE, matches |-> FALSE, resources |-> TRUE,
                   fullMemory |-> FALSE, personalizedGreeting |-> FALSE,
                   webSearch |-> FALSE, smartRouting |-> FALSE],
     limits |-> [messagesPerDay |-> 50, conversationHistory |-> 3, maxTokens |-> 500]]

\* mutant: the status is compared untrimmed
determineUserTierNoTrim(subscriptionStatus) ==
    LET status == IF subscriptionStatus.def /\ subscriptionStatus.s # <<>>
                  THEN subscriptionStatus.s ELSE <<"Free">>
    IN  CASE status = <<"Founder Club">> -> FounderTier
          [] status = <<"Premium">>      -> PremiumTier
          [] OTHER                       -> FreeTier

\* mutant: a status the switch does not know falls through to Premium
determineUserTierPaidDefault(subscriptionStatus) ==
    LET trimmed == IF subscriptionStatus.def THEN Trim(subscriptionStatus.s) ELSE <<>>
        status  == IF trimmed # <<>> THEN trimmed ELSE <<"Free">>
    IN  CASE status = <<"Founder Club">> -> FounderTier
          [] status = <<"Free">>         -> FreeTier
          [] OTHER                       -> PremiumTier

\* SubscriptionService.determineUserTier:
\*   status = subscriptionStatus?.trim() || 'Free'; switch (status) {...}
determineUserTier(subscriptionStatus) ==
    LET trimmed == IF subscriptionStatus.def THEN Trim(subscriptionStatus.s) ELSE <<>>
        status  == IF trimmed # <<>> THEN trimmed ELSE <<"Free">>
    IN  CASE status = <<"Founder Club">> -> FounderTier
          [] status = <<"Premium">>      -> PremiumTier
          [] OTHER                       -> FreeTier


NoTier == [tier |-> "none"]

RECURSIVE SeqsUpTo(_)
SeqsUpTo(n) == IF n = 0 THEN {<<>>}
               ELSE SeqsUpTo(n - 1) \cup [1..n -> StatusAtoms]

\* the arguments determineUserTier is applied to
StatusInputs == {Undefined} \cup {Str(s) : s \in SeqsUpTo(MaxStatusLen)}

TierIdle == tierIn = Undefined /\ tierOut = NoTier

TierInit == tierIn \in StatusInputs /\ tierOut = NoTier

\* one call of determineUserTier on the chosen argument
DetermineTier ==
    /\ tierOut = NoTier
    /\ tierOut' = determineUserTier(tierIn)
    /\ UNCHANGED tierIn
    /\ UNCHANGED <<limVars, storeVars, pipeVars, auxVars>>

\* the next call, with another argument
NextStatus ==
    /\ tierOut # NoTier
    /\ \E s \in StatusInputs : tierIn' = s
    /\ tierOut' = NoTier
    /\ UNCHANGED <<limVars, storeVars, pipeVars, auxVars>>

(***************************************************************************)
(* The in-memory RateLimiter and its caller, POST auth/verify-user         *)
(***************************************************************************)

\* auth/verify-user: "10 attempts per hour for auth"
AuthLimit == 10

\* bound: the hour window of verify-user (3600000 ms), in clock ticks
AuthWindowTicks == 2

\* bound: the last clock tick
MaxNow == 3

\* client addresses (x-forwarded-for / x-real-ip / 'unknown')
Clients == {"ip1", "ip2"}

\* the identifier verify-user passes: `auth:${clientIP}`
AuthKey(ip) == <<"auth", ip>>

\* an identifier of another caller, limited to one call per window
OtherKey   == <<"key", "k1">>
OtherLimit == 1

Identifiers == {AuthKey(ip) : ip \in Clients} \cup {OtherKey}

NoEntry == [count |-> 0, resetTime |-> -1]
NoCall  == [id |-> <<"none", "none">>, status |-> 0, allowed |-> FALSE,
            remaining |-> 0, resetTime |-> 0, limit |-> 0, prior |-> 0]

\* mutant: the comparison with the limit is off by one
RateLimiterCheckOffByOne(map, identifier, limit, windowMs, now) ==
    LET current == map[identifier] IN
    IF current = NoEntry \/ now > current.resetTime
    THEN [map |-> [map EXCEPT ![identifier] = [count |-> 1, resetTime |-> now + windowMs]],
          allowed |-> TRUE, remaining |-> limit - 1, resetTime |-> now + windowMs]
    ELSE IF current.count > limit
    THEN [map |-> map, allowed |-> FALSE, remaining |-> 0, resetTime |-> current.resetTime]
    ELSE [map |-> [map EXCEPT ![identifier].count = current.count + 1],
          allowed |-> TRUE, remaining |-> limit - (current.count + 1),
          resetTime |-> current.resetTime]

\* mutant: a denied call starts the window again
RateLimiterCheckDeniedExtends(map, identifier, limit, windowMs, now) ==
    LET current == map[identifier] IN
    IF current = NoEntry \/ now > current.resetTime
    THEN [map |-> [map EXCEPT ![identifier] = [count |-> 1, resetTime |-> now + windowMs]],
          allowed |-> TRUE, remaining |-> limit - 1, resetTime |-> now + windowMs]
    ELSE IF current.count >= limit
    THEN [map |-> [map EXCEPT ![identifier].resetTime = now + windowMs],
          allowed |-> FALSE, remaining |-> 0, resetTime |-> now + windowMs]
    ELSE [map |-> [map EXCEPT ![identifier].count = current.count + 1],
          allowed |-> TRUE, remaining |-> limit - (current.count + 1),
          resetTime |-> current.resetTime]

\* RateLimiter.checkRateLimit(identifier, limit, windowMs) at Date.now() = now:
\* the new map and the returned { allowed, remaining, resetTime }
RateLimiterCheck(map, identifier, limit, windowMs, now) ==
    LET current == map[identifier] IN
    IF current = NoEntry \/ now > current.resetTime
    THEN [map |-> [map EXCEPT ![identifier] = [count |-> 1, resetTime |-> now + windowMs]],
          allowed |-> TRUE, remaining |-> limit - 1, resetTime |-> now + windowMs]
    ELSE IF current.count >= limit
    THEN [map |-> map, allowed |-> FALSE, remaining |-> 0, resetTime |-> current.resetTime]
    ELSE [map |-> [map EXCEPT ![identifier].count = current.count + 1],
          allowed |-> TRUE, remaining |-> limit - (current.count + 1),
          resetTime |-> current.resetTime]

\* RateLimiter.cleanup: expired entries are deleted
RateLimiterCleanup(map, now) ==
    [id \in DOMAIN map |-> IF map[id] # NoEntry /\ now > map[id].resetTime
                           THEN NoEntry ELSE map[id]]

LimIdle ==
    /\ limNow = 0
    /\ requests = [id \in Identifiers |-> NoEntry]
    /\ limLast = NoCall
    /\ limAllowed = [id \in Identifiers |-> 0]

LimInit == LimIdle

\* one call of checkRateLimit: the map, the history of allowed calls in the
\* identifier's current window, and the record of the call
LimiterCall(id, limit, status) ==
    LET r      == RateLimiterCheck(requests, id, limit, AuthWindowTicks, limNow)
        inWin  == requests[id] # NoEntry /\ limNow <= requests[id].resetTime
        before == IF inWin THEN limAllowed[id] ELSE 0
    IN  /\ requests' = r.map
        /\ limAllowed' = [limAllowed EXCEPT ![id] = IF r.allowed THEN before + 1 ELSE before]
        /\ limLast' = [id |-> id, status |-> IF r.allowed THEN status ELSE 429,
                       allowed |-> r.allowed, remaining |-> r.remaining,
                       resetTime |-> r.resetTime, limit |-> limit, prior |-> before]
        /\ UNCHANGED limNow

\* the statuses verify-user answers after the rate limit let the request pass
AfterLimitStatuses == {200, 401, 403, 404}

\* POST auth/verify-user from client address ip: the e-mail is validated
\* first (400 INVALID_EMAIL), then the limiter decides 429 RATE_LIMIT_EXCEEDED
VerifyUser(ip, emailValid, rest) ==
    IF ~emailValid
    THEN /\ limLast' = [NoCall EXCEPT !.id = AuthKey(ip), !.status = 400, !.limit = AuthLimit]
         /\ UNCHANGED <<limNow, requests, limAllowed>>
    ELSE LimiterCall(AuthKey(ip), AuthLimit, rest)

VerifyUserStep ==
    /\ \E ip \in Clients, emailValid \in BOOLEAN, rest \in AfterLimitStatuses :
          VerifyUser(ip, emailValid, rest)
    /\ UNCHANGED <<tierVars, storeVars, pipeVars, auxVars>>

\* another caller of RateLimiter.checkRateLimit, with limit 1
OtherCallStep ==
    /\ LimiterCall(OtherKey, OtherLimit, 200)
    /\ UNCHANGED <<tierVars, storeVars, pipeVars, auxVars>>

\* time passes
LimTick ==
    /\ limNow < MaxNow
    /\ limNow' = limNow + 1
    /\ UNCHANGED <<requests, limLast, limAllowed>>
    /\ UNCHANGED <<tierVars, storeVars, pipeVars, auxVars>>

\* RateLimiter.cleanup()
LimCleanup ==
    /\ requests' = RateLimiterCleanup(requests, limNow)
    /\ requests' # requests
    /\ UNCHANGED <<limNow, limLast, limAllowed>>
    /\ UNCHANGED <<tierVars, storeVars, pipeVars, auxVars>>

(***************************************************************************)
(* PII masking and the conversation store (AirtableService)                *)
(***************************************************************************)

\* A text is a sequence of tokens.  Two tokens are PII (they match the ssn
\* and the email pattern of PIIProtector.patterns), the others match none.
PIITokens   == {"123-45-6789", "bob@va.gov"}
PlainTokens == {"hello"}

\* what the replace callback of maskPII returns for a match
MaskToken(t) ==
    CASE t = "123-45-6789" -> "XXX-XX-6789"    \* 'XXX-XX-' + match.slice(-4)
      [] t = "bob@va.gov"  -> "b***@va.gov"    \* local.charAt(0) + '***@' + domain
      [] OTHER             -> t

\* PIIProtector.maskPII
maskPII(text) == [i \in DOMAIN text |-> MaskToken(text[i])]

\* PIIProtector.redactPII
redactPII(text) ==
    [i \in DOMAIN text |-> IF text[i] \in PIITokens THEN "[REDACTED]" ELSE text[i]]

\* PIIProtector.detectPII(text).length > 0
ContainsPII(text) == \E i \in DOMAIN text : text[i] \in PIITokens

\* SecurityManager.encrypt / decrypt: the cipher text is opaque, only
\* decrypt gives the plain text back
NoCipher       == [cipher |-> FALSE, of |-> <<>>]
Encrypt(text)  == [cipher |-> TRUE, of |-> text]
Decrypt(c)     == c.of

\* the message texts callers send
UserTexts == {<<"hello">>, <<"123-45-6789", "bob@va.gov">>}
ReplyText == <<"reply">>

StoreUsers == {"A", "B"}

\* ids SecurityManager.generateToken hands to createConversation
GenIds == {"g1", "g2"}
\* conversation ids a caller may send: generated ones (known to the table or
\* not yet) and a temporary one
TempId  == "temp_1"
ConvIds == GenIds \cup {TempId}

\* conversationId.startsWith('temp_')
StartsWithTemp(id) == id = TempId

\* bound: rows of the Messages table
MaxMsgs == 2

\* bound: rows written by AirtableService.storeConversationMessages
MaxLegacy == 2

Callers == {"s1", "s2"}

NoConv == [exists |-> FALSE, user |-> "none", enc |-> FALSE, count |-> 0]

\* error.message?.includes('not found') || includes('NOT_FOUND')
NotFoundMessages == {"Conversation not found", "Conversation not found or unauthorized",
                     "NOT_FOUND"}

Throw(m)   == [kind |-> "throw", msg |-> m]
ReturnNull == [kind |-> "null"]

\* safeTableOperation: a thrown not-found error becomes null, any other
\* error is thrown again, a value is returned as it is
safeTableOperation(outcome) ==
    IF outcome.kind = "throw" /\ outcome.msg \in NotFoundMessages
    THEN ReturnNull ELSE outcome

\* mutant: the owner is not compared
getConversationNoOwnerCheck(table, conversationId, userId) ==
    safeTableOperation(
        IF ~table[conversationId].exists THEN ReturnNull
        ELSE [kind |-> "conv", id |-> conversationId, userId |-> table[conversationId].user,
              isEncrypted |-> table[conversationId].enc])

\* AirtableService.getConversation
getConversation(table, conversationId, userId) ==
    safeTableOperation(
        IF ~table[conversationId].exists THEN ReturnNull
        ELSE IF table[conversationId].user # userId
        THEN Throw("Unauthorized access to conversation")
        ELSE [kind |-> "conv", id |-> conversationId, userId |-> table[conversationId].user,
              isEncrypted |-> table[conversationId].enc])

\* the rows of a conversation, oldest first (sort by Timestamp asc)
RECURSIVE RowsOf(_, _)
RowsOf(rows, conversationId) ==
    IF rows = <<>> THEN <<>>
    ELSE IF Head(rows).conv = conversationId
         THEN <<Head(rows)>> \o RowsOf(Tail(rows), conversationId)
         ELSE RowsOf(Tail(rows), conversationId)

FirstN(seq, n) == SubSeq(seq, 1, Min(n, Len(seq)))
LastN(seq, n)  == SubSeq(seq, Max(1, Len(seq) - n + 1), Len(seq))

\* mapMessageRecord, then the decryption of the user messages of an
\* encrypted conversation
ReadRow(row, isEncrypted) ==
    [role |-> row.role,
     content |-> IF isEncrypted /\ row.encrypted.cipher /\ row.role = "user"
                 THEN Decrypt(row.encrypted) ELSE row.content]

\* AirtableService.getConversationMessages: { kind: "msgs", list } or a throw
getConversationMessages(table, rows, conversationId, userId, limit) ==
    LET conversation == getConversation(table, conversationId, userId)
        inner == IF conversation.kind = "throw" THEN conversation
                 ELSE IF conversation.kind = "null"
                 THEN Throw("Conversation not found or unauthorized")
                 ELSE LET records == FirstN(RowsOf(rows, conversationId), limit)
                      IN  [kind |-> "msgs",
                           list |-> [i \in DOMAIN records |->
                                        ReadRow(records[i], conversation.isEncrypted)]]
        result == safeTableOperation(inner)
    IN  IF result.kind = "null" THEN [kind |-> "msgs", list |-> <<>>] ELSE result

\* the Content and Encrypted_Content addMessage stores for a message
StoredContent(role, content, isEncrypted) ==
    IF isEncrypted /\ role = "user" THEN redactPII(content)
    ELSE IF role = "user" THEN maskPII(content)
    ELSE content

StoredCipher(role, content, isEncrypted) ==
    IF isEncrypted /\ role = "user" THEN Encrypt(content) ELSE NoCipher

NoResult == [kind |-> "none"]
IdleOp == [op |-> "none", pc |-> "idle", conv |-> TempId, user |-> "none",
           role |-> "none", text |-> <<>>, enc |-> FALSE, count |-> 0,
           phase |-> 0, result |-> NoResult]

StoreIdle ==
    /\ convs = [c \in ConvIds |-> NoConv]
    /\ msgs = <<>>
    /\ legacy = <<>>
    /\ ops = [s \in Callers |-> IdleOp]

StoreInit == StoreIdle

Free(s) == ops[s].pc \in {"idle", "done"}

\* slot s moves on to record o; ops keeps the record of the operation that
\* returned last, an older one is forgotten
Step(s, o) ==
    [t \in Callers |-> IF t = s THEN o
                       ELSE IF o.pc = "done" /\ ops[t].pc = "done" THEN IdleOp
                       ELSE ops[t]]

Finish(s, op, c, u, result) ==
    Step(s, [IdleOp EXCEPT !.op = op, !.pc = "done", !.conv = c,
                           !.user = u, !.result = result])

\* the id generateToken returns: one no conversation has yet
FreshId == IF ~convs["g1"].exists THEN "g1" ELSE "g2"

\* AirtableService.createConversation(userId, title, isEncrypted)
CreateConversation(s, u, isEncrypted) ==
    /\ Free(s)
    /\ \E g \in GenIds : ~convs[g].exists
    /\ convs' = [convs EXCEPT ![FreshId] =
                    [exists |-> TRUE, user |-> u, enc |-> isEncrypted, count |-> 0]]
    /\ ops' = Finish(s, "createConversation", FreshId, u, [kind |-> "id"])
    /\ UNCHANGED <<msgs, legacy>>
    /\ UNCHANGED <<tierVars, limVars, pipeVars, auxVars>>

\* AirtableService.getConversation(conversationId, userId)
GetConversation(s, c, u) ==
    /\ Free(s)
    /\ ops' = Finish(s, "getConversation", c, u, getConversation(convs, c, u))
    /\ UNCHANGED <<convs, msgs, legacy>>
    /\ UNCHANGED <<tierVars, limVars, pipeVars, auxVars>>

\* AirtableService.getConversationMessages(conversationId, userId, limit)
GetConversationMessages(s, c, u, limit) ==
    /\ Free(s)
    /\ ops' = Finish(s, "getConversationMessages", c, u,
                     getConversationMessages(convs, msgs, c, u, limit))
    /\ UNCHANGED <<convs, msgs, legacy>>
    /\ UNCHANGED <<tierVars, limVars, pipeVars, auxVars>>

\* AirtableService.addMessage is called: nothing is read yet
AddMessageStart(s, c, role, text) ==
    /\ Free(s)
    /\ ops' = [ops EXCEPT ![s] = [IdleOp EXCEPT !.op = "addMessage", !.pc = "select",
                                               !.conv = c, !.role = role, !.text = text]]
    /\ UNCHANGED <<convs, msgs, legacy>>
    /\ UNCHANGED <<tierVars, limVars, pipeVars, auxVars>>

\* what follows an addMessage that returned: the assistant message of the
\* route's storeConversationMessages, or the end of the operation
AfterAdd(o, stored) ==
    IF o.op = "storeRoute" /\ o.phase = 1
    THEN [o EXCEPT !.pc = "select", !.phase = 2, !.role = "assistant", !.text = ReplyText,
                   !.enc = FALSE, !.count = 0]
    ELSE [IdleOp EXCEPT !.op = o.op, !.pc = "done", !.conv = o.conv, !.user = o.user,
                        !.result = [kind |-> IF stored THEN "stored" ELSE "notstored"]]

\* addMessage: the conversation row is selected by Conversation_ID; without
\* a row 'Conversation not found' is thrown, safeTableOperation turns it into
\* null and addMessage returns a fresh token without storing anything
AddSelect(s) ==
    /\ ops[s].pc = "select"
    /\ LET o == ops[s] IN
       IF ~convs[o.conv].exists
       THEN ops' = Step(s, AfterAdd(o, FALSE))
       ELSE ops' = [ops EXCEPT ![s] = [o EXCEPT !.pc = "create",
                                                !.enc = convs[o.conv].enc,
                                                !.count = convs[o.conv].count]]
    /\ UNCHANGED <<convs, msgs, legacy>>
    /\ UNCHANGED <<tierVars, limVars, pipeVars, auxVars>>

\* addMessage: tables.messages.create
AddCreate(s) ==
    /\ ops[s].pc = "create"
    /\ Len(msgs) < MaxMsgs
    /\ LET o == ops[s] IN
       /\ msgs' = Append(msgs, [conv |-> o.conv, role |-> o.role,
                                content |-> StoredContent(o.role, o.text, o.enc),
                                encrypted |-> StoredCipher(o.role, o.text, o.enc),
                                orig |-> o.text])
       /\ ops' = [ops EXCEPT ![s].pc = "update"]
    /\ UNCHANGED <<convs, legacy>>
    /\ UNCHANGED <<tierVars, limVars, pipeVars, auxVars>>

\* addMessage: tables.conversations.update with the count read at the select
AddUpdate(s) ==
    /\ ops[s].pc = "update"
    /\ LET o == ops[s] IN
       /\ convs' = [convs EXCEPT ![o.conv].count = o.count + 1]
       /\ ops' = Step(s, AfterAdd(o, TRUE))
    /\ UNCHANGED <<msgs, legacy>>
    /\ UNCHANGED <<tierVars, limVars, pipeVars, auxVars>>

\* storeConversationMessages of the send-message route is called
StoreRouteStart(s, c, u, text) ==
    /\ Free(s)
    /\ ops' = IF StartsWithTemp(c)
              THEN Finish(s, "storeRoute", c, u, [kind |-> "skipped"])
              ELSE [ops EXCEPT ![s] = [IdleOp EXCEPT !.op = "storeRoute", !.pc = "sget",
                                                     !.conv = c, !.user = u, !.role = "user",
                                                     !.text = text, !.phase = 1]]
    /\ UNCHANGED <<convs, msgs, legacy>>
    /\ UNCHANGED <<tierVars, limVars, pipeVars, auxVars>>

\* route store: try { getConversation } catch { createConversation }
StoreRouteGet(s) ==
    /\ ops[s].pc = "sget"
    /\ LET o == ops[s]
           r == getConversation(convs, o.conv, o.user)
       IN  ops' = [ops EXCEPT ![s].pc = IF r.kind = "throw" THEN "screate" ELSE "select"]
    /\ UNCHANGED <<convs, msgs, legacy>>
    /\ UNCHANGED <<tierVars, limVars, pipeVars, auxVars>>

\* route store: createConversation(userId, title, false) under a new id
StoreRouteCreate(s) ==
    /\ ops[s].pc = "screate"
    /\ \E g \in GenIds : ~convs[g].exists
    /\ convs' = [convs EXCEPT ![FreshId] =
                    [exists |-> TRUE, user |-> ops[s].user, enc |-> FALSE, count |-> 0]]
    /\ ops' = [ops EXCEPT ![s].pc = "select"]
    /\ UNCHANGED <<msgs, legacy>>
    /\ UNCHANGED <<tierVars, limVars, pipeVars, auxVars>>

\* AirtableService.storeConversationMessages is called
StoreLegacyStart(s, text) ==
    /\ Free(s)
    /\ ops' = [ops EXCEPT ![s] = [IdleOp EXCEPT !.op = "storeLegacy", !.pc = "legacy",
                                               !.role = "user", !.text = text, !.phase = 1]]
    /\ UNCHANGED <<convs, msgs, legacy>>
    /\ UNCHANGED <<tierVars, limVars, pipeVars, auxVars>>

\* legacy store: base(tableName).create of the user message, then of the
\* reply; a create that fails moves on to the next table name (phase counts
\* the table names tried), after the last one nothing more is stored
StoreLegacyCreate(s, ok) ==
    /\ ops[s].pc = "legacy"
    /\ LET o == ops[s] IN
       IF ok
       THEN /\ Len(legacy) < MaxLegacy
            /\ legacy' = Append(legacy, [role |-> o.role,
                                         content |-> IF o.role = "user" THEN o.text
                                                     ELSE ReplyText,
                                         orig |-> IF o.role = "user" THEN o.text
                                                  ELSE ReplyText])
            /\ ops' = IF o.role = "user"
                      THEN [ops EXCEPT ![s].role = "assistant"]
                      ELSE Finish(s, "storeLegacy", o.conv, o.user, [kind |-> "stored"])
       ELSE /\ legacy' = legacy
            /\ ops' = IF o.phase = 1
                      THEN [ops EXCEPT ![s].phase = 2, ![s].role = "user"]
                      ELSE Finish(s, "storeLegacy", o.conv, o.user, [kind |-> "notstored"])
    /\ UNCHANGED <<convs, msgs>>
    /\ UNCHANGED <<tierVars, limVars, pipeVars, auxVars>>

\* the client s1 creates, reads and stores through the route; s2 is a second
\* writer whose addMessage calls interleave with the operations of s1
StoreNext ==
    \/ \E u \in StoreUsers, e \in BOOLEAN : CreateConversation("s1", u, e)
    \/ \E c \in GenIds, u \in StoreUsers : GetConversation("s1", c, u)
    \/ \E c \in GenIds, u \in StoreUsers, n \in 1..MaxMsgs :
          GetConversationMessages("s1", c, u, n)
    \/ \E c \in GenIds, t \in UserTexts : AddMessageStart("s2", c, "user", t)
    \/ \E s \in Callers : AddSelect(s)
    \/ \E s \in Callers : AddCreate(s)
    \/ \E s \in Callers : AddUpdate(s)
    \/ \E c \in ConvIds, u \in StoreUsers, t \in UserTexts :
          StoreRouteStart("s1", c, u, t)
    \/ \E s \in Callers : StoreRouteGet(s)
    \/ \E s \in Callers : StoreRouteCreate(s)

\* AirtableService.storeConversationMessages writes to a table of its own
LegacyNext ==
    \/ \E s \in Callers, t \in UserTexts : StoreLegacyStart(s, t)
    \/ \E s \in Callers, ok \in BOOLEAN : StoreLegacyCreate(s, ok)

(***************************************************************************)
(* POST /api/chat/send-message with UsageTrackingService and               *)
(* RateLimitingService                                                     *)
(***************************************************************************)

\* the users session tokens are issued for, and the Subscription_Status of
\* their profile row (u1 has none: getUserProfile maps it to 'Free')
PipeUsers == {"u1", "u2"}
ProfileStatus(u) == IF u = "u2" THEN Str(<<"Premium">>) ELSE Undefined

Slots == {"r1", "r2"}

\* the users whose session tokens arrive on a slot: r1 serves one client of
\* u1, r2 a second client of u1 or a client of u2
TokensOf(r) == IF r = "r1" THEN {"u1"} ELSE PipeUsers

\* bound: the last minute window the clock reaches
MaxWindow == 1

\* bound: minute windows per calendar day (1440 in real time)
WindowsPerDay == 1

\* bound: the requests received in a run
MaxSends == 2

\* bound: the calls to the counter store that throw in a run
MaxFaults == 1

\* bound: how far below their limits the counters of day 0 and window 0 start
Headroom == 1

Day(w) == w \div WindowsPerDay
Days   == 0..Day(MaxWindow)

\* ENDPOINT_RATE_LIMITS['/api/chat/send-message'][tier].maxRequests
SendMessageMaxRequests(tier) ==
    CASE tier = FREE    -> 3
      [] tier = PREMIUM -> 20
      [] tier = FOUNDER -> 40

\* the limit checkDailyMessageLimit and applyRateLimit report when the
\* counter store throws
FailOpenLimit == 999999

\* userProfile?.subscriptionStatus || 'Free', then determineUserTier
TierOfProfile(status) ==
    determineUserTier(IF status.def /\ status.s # <<>> THEN status ELSE Str(<<"Free">>))

\* the tier a tier value maps back to: determineUserTier(tier) in checkDailyMessageLimit
TierOfEnum(tier) == determineUserTier(Str(<<tier>>))

\* the message texts: what each contains as a substring
Messages == {"hello", "jobs", "benefits", "my matches"}
SubstringsOf(m) ==
    CASE m = "jobs"       -> {"jobs"}
      [] m = "benefits"   -> {"benefits"}
      [] m = "my matches" -> {"my matches"}
      [] OTHER            -> {}

opportunityKeywords == {"opportunities", "jobs", "employment", "career", "grants"}
resourceKeywords    == {"resources", "benefits", "assistance", "help", "support"}
matchKeywords       == {"my opportunities", "my matches", "recommended", "my benefits"}
detailKeywords      == {"details", "more info", "tell me more"}

\* detectAirtableSearchIntent
detectAirtableSearchIntent(message) ==
    LET searchOpportunities   == SubstringsOf(message) \cap opportunityKeywords # {}
        searchResources       == SubstringsOf(message) \cap resourceKeywords # {}
        getUserMatches        == SubstringsOf(message) \cap matchKeywords # {}
        getOpportunityDetails == SubstringsOf(message) \cap detailKeywords # {}
    IN  [searchRequired |-> searchOpportunities \/ searchResources
                             \/ getUserMatches \/ getOpportunityDetails,
         searchOpportunities |-> searchOpportunities,
         searchResources |-> searchResources,
         getUserMatches |-> getUserMatches,
         getOpportunityDetails |-> getOpportunityDetails]

\* applyTierRestrictions: { ...intent, three flags gated, blockedFeatures }
applyTierRestrictions(intent, serviceTier) ==
    [searchRequired |-> intent.searchRequired,
     getOpportunityDetails |-> intent.getOpportunityDetails,
     searchOpportunities |-> intent.searchOpportunities /\ serviceTier.features.opportunities,
     getUserMatches |-> intent.getUserMatches /\ serviceTier.features.matches,
     searchResources |-> intent.searchResources /\ serviceTier.features.resources,
     blockedOpportunities |-> intent.searchOpportunities /\ ~serviceTier.features.opportunities,
     blockedMatches |-> intent.getUserMatches /\ ~serviceTier.features.matches]

\* gatherTieredAirtableContext: the lookups made against the backing store
gatherTieredAirtableContext(searchIntent, serviceTier) ==
    (IF searchIntent.searchOpportunities /\ serviceTier.features.opportunities
     THEN {"opportunities"} ELSE {})
    \cup (IF searchIntent.searchResources /\ serviceTier.features.resources
          THEN {"resources"} ELSE {})
    \cup (IF searchIntent.getUserMatches /\ serviceTier.features.matches
          THEN {"matches"} ELSE {})

\* mutant: only a blocked opportunities search brings upsell text
UpsellForOpportunitiesOnly(originalIntent, restrictedIntent, tier) ==
    IF restrictedIntent.blockedOpportunities /\ originalIntent.searchOpportunities /\ tier = FREE
    THEN {"opportunities"} ELSE {}

\* the upsell text of generateOpenAIResponseWithTracking: which feature
\* messages getFeatureUpsellMessage contributes
UpsellFor(originalIntent, restrictedIntent, tier) ==
    (IF restrictedIntent.blockedOpportunities /\ originalIntent.searchOpportunities /\ tier = FREE
     THEN {"opportunities"} ELSE {})
    \cup (IF restrictedIntent.blockedMatches /\ originalIntent.getUserMatches /\ tier = FREE
          THEN {"matches"} ELSE {})

NoResponse == [status |-> 0, code |-> "none", resetsAt |-> -1]
Response(status, code) == [status |-> status, code |-> code, resetsAt |-> -1]

NoLimit == [checked |-> FALSE, allowed |-> FALSE, current |-> 0, limit |-> 0, at |-> 0]
\* what the route reads of a check that let the request pass: allowed
Passed  == [checked |-> TRUE, allowed |-> TRUE, current |-> 0, limit |-> 0, at |-> 0]

IdleReq == [pc |-> "idle", hasMessage |-> FALSE, hasToken |-> FALSE, user |-> "unknown",
            tier |-> "none", rate |-> NoLimit, daily |-> NoLimit, message |-> "none",
            searched |-> {}, upsell |-> {}, returned |-> FALSE, success |-> FALSE,
            stages |-> <<>>, response |-> NoResponse]

\* mutant: the session token is not required
InputValidationNoTokenCheck(hasMessage, hasToken) ==
    IF ~hasMessage THEN [pc |-> "done", response |-> Response(400, "INVALID_MESSAGE")]
    ELSE [pc |-> "verify", response |-> NoResponse]

\* the input validation of POST: the message first, then the session token
InputValidation(hasMessage, hasToken) ==
    IF ~hasMessage THEN [pc |-> "done", response |-> Response(400, "INVALID_MESSAGE")]
    ELSE IF ~hasToken THEN [pc |-> "done", response |-> Response(401, "UNAUTHORIZED")]
    ELSE [pc |-> "verify", response |-> NoResponse]

\* mutant: a user at the limit may still send
checkDailyMessageLimitInclusive(up, count, tier, day) ==
    IF up
    THEN [checked |-> TRUE, allowed |-> count <= TierOfEnum(tier).limits.messagesPerDay,
          current |-> count, limit |-> TierOfEnum(tier).limits.messagesPerDay, at |-> day + 1]
    ELSE [checked |-> TRUE, allowed |-> TRUE, current |-> 0, limit |-> FailOpenLimit, at |-> day]

\* mutant: the catch branch refuses the request
checkDailyMessageLimitFailClosed(up, count, tier, day) ==
    IF up
    THEN [checked |-> TRUE, allowed |-> count < TierOfEnum(tier).limits.messagesPerDay,
          current |-> count, limit |-> TierOfEnum(tier).limits.messagesPerDay, at |-> day + 1]
    ELSE [checked |-> TRUE, allowed |-> FALSE, current |-> 0, limit |-> FailOpenLimit, at |-> day]

\* UsageTrackingService.checkDailyMessageLimit, the counter read being count
\* (up: the counter store answered); at is the day resetsAt falls on:
\* tomorrow, or today in the catch branch
checkDailyMessageLimit(up, count, tier, day) ==
    IF up
    THEN [checked |-> TRUE, allowed |-> count < TierOfEnum(tier).limits.messagesPerDay,
          current |-> count, limit |-> TierOfEnum(tier).limits.messagesPerDay, at |-> day + 1]
    ELSE [checked |-> TRUE, allowed |-> TRUE, current |-> 0, limit |-> FailOpenLimit, at |-> day]

\* mutant: a refused rate-limit check does not end the request
AfterRateLimitIgnored(allowed) == "daily"

\* the route after applyRateLimit: if (!allowed && response) return response
AfterRateLimit(allowed) == IF allowed THEN "daily" ELSE "done"

InitCount(tierLimit) == Max(0, tierLimit - Headroom)

\* the counters of window 0 and day 0 start Headroom below the limits of the
\* user's tier, as after that many earlier requests
PipeInit ==
    /\ req = [r \in Slots |-> IdleReq]
    /\ window = 0
    /\ faults = 0
    /\ rateCount = [u \in PipeUsers |-> [w \in 0..MaxWindow |->
          IF w = 0 THEN InitCount(SendMessageMaxRequests(TierOfProfile(ProfileStatus(u)).tier))
          ELSE 0]]
    /\ allowedCalls = rateCount
    /\ dailyCount = [u \in PipeUsers |-> [d \in Days |->
          IF d = 0 THEN InitCount(TierOfProfile(ProfileStatus(u)).limits.messagesPerDay)
          ELSE 0]]
    /\ invoked = dailyCount
    /\ tierCache = [u \in PipeUsers |-> "none"]
    /\ sent = 0

PipeIdle == PipeInit

Today == Day(window)

Stage(q, name) == [q EXCEPT !.stages = Append(q.stages, name)]
Stop(q, status, code) == [q EXCEPT !.pc = "done", !.response = Response(status, code)]

\* slot r moves on to record q; req keeps the record of the request answered
\* last, an older one is forgotten
Move(r, q) ==
    [t \in Slots |-> IF t = r THEN q
                     ELSE IF q.pc = "done" /\ req[t].pc = "done" THEN IdleReq
                     ELSE req[t]]

\* a request arrives: body parsed, message and session token validated
Receive(r, hasMessage, hasToken) ==
    /\ req[r].pc \in {"idle", "done"}
    /\ sent < MaxSends
    /\ LET v == InputValidation(hasMessage, hasToken) IN
       req' = Move(r, [IdleReq EXCEPT !.pc = v.pc, !.response = v.response,
                                      !.hasMessage = hasMessage, !.hasToken = hasToken])
    /\ sent' = sent + 1
    /\ UNCHANGED <<window, faults, rateCount, dailyCount, tierCache, allowedCalls, invoked>>
    /\ UNCHANGED <<tierVars, limVars, storeVars, auxVars>>

\* SecurityManager.verifyJWT: the token is invalid or expired, or names a user
VerifySession(r, valid, u) ==
    /\ req[r].pc = "verify"
    /\ LET q == Stage(req[r], "session") IN
       req' = Move(r, IF valid THEN [q EXCEPT !.pc = "tier", !.user = u]
                      ELSE Stop(q, 401, "INVALID_SESSION"))
    /\ UNCHANGED <<window, faults, rateCount, dailyCount, tierCache, allowedCalls,
                   invoked, sent>>
    /\ UNCHANGED <<tierVars, limVars, storeVars, auxVars>>

\* getCachedUserTier, else getUserProfile + determineUserTier + cacheUserTier;
\* both cache calls swallow the errors of the counter store
ResolveTier(r, up) ==
    /\ req[r].pc = "tier"
    /\ LET q      == Stage(req[r], "tier")
           cached == IF up THEN tierCache[q.user] ELSE "none"
           tier   == IF cached # "none" THEN cached
                     ELSE TierOfProfile(ProfileStatus(q.user)).tier
       IN  /\ req' = Move(r, [q EXCEPT !.pc = "rate", !.tier = tier])
           /\ tierCache' = IF cached = "none" /\ up
                           THEN [tierCache EXCEPT ![q.user] = tier] ELSE tierCache
    /\ up \/ faults < MaxFaults
    /\ faults' = IF up THEN faults ELSE faults + 1
    /\ UNCHANGED <<window, rateCount, dailyCount, allowedCalls, invoked, sent>>
    /\ UNCHANGED <<tierVars, limVars, storeVars, auxVars>>

\* applyRateLimit -> checkRateLimit, up to the redis.get: the window is
\* computed, the counter read and compared with maxRequests; a get that
\* throws ends in the catch branch: allowed, current 0
RateLimitGet(r, up) ==
    /\ req[r].pc = "rate"
    /\ LET q       == Stage(req[r], "rate")
           max     == SendMessageMaxRequests(q.tier)
           current == rateCount[q.user][window]
       IN  IF ~up
           THEN /\ req' = Move(r, [q EXCEPT !.pc = AfterRateLimit(TRUE), !.rate = Passed])
                /\ allowedCalls' = [allowedCalls EXCEPT ![q.user][window] = @ + 1]
           ELSE IF current >= max
           THEN /\ req' = Move(r,
                      [q EXCEPT !.pc = AfterRateLimit(FALSE),
                                !.response = [status |-> 429, code |-> "RATE_LIMIT_EXCEEDED",
                                              resetsAt |-> window + 1],
                                !.rate = [checked |-> TRUE, allowed |-> FALSE,
                                          current |-> current, limit |-> max, at |-> window]])
                /\ UNCHANGED allowedCalls
           ELSE /\ req' = Move(r,
                      [q EXCEPT !.pc = "rate_incr",
                                !.rate = [checked |-> FALSE, allowed |-> FALSE,
                                          current |-> current, limit |-> max, at |-> window]])
                /\ UNCHANGED allowedCalls
    /\ up \/ faults < MaxFaults
    /\ faults' = IF up THEN faults ELSE faults + 1
    /\ UNCHANGED <<window, rateCount, dailyCount, tierCache, invoked, sent>>
    /\ UNCHANGED <<tierVars, limVars, storeVars, auxVars>>

\* mutant: the request passes the rate limit without being counted
RateLimitIncrNoCount(r, up) ==
    /\ req[r].pc = "rate_incr"
    /\ LET q == req[r] IN
       /\ req' = Move(r, [q EXCEPT !.pc = AfterRateLimit(TRUE), !.rate = Passed])
       /\ allowedCalls' = [allowedCalls EXCEPT ![q.user][q.rate.at] = @ + 1]
    /\ up \/ faults < MaxFaults
    /\ faults' = IF up THEN faults ELSE faults + 1
    /\ UNCHANGED <<window, rateCount, dailyCount, tierCache, invoked, sent>>
    /\ UNCHANGED <<tierVars, limVars, storeVars, auxVars>>

\* checkRateLimit after the get: redis.incr and redis.expire on the key of
\* the window computed before the get, then allowed=true; an incr that throws
\* ends in the catch branch, allowed as well
RateLimitIncr(r, up) ==
    /\ req[r].pc = "rate_incr"
    /\ LET q == req[r] IN
       /\ req' = Move(r, [q EXCEPT !.pc = AfterRateLimit(TRUE), !.rate = Passed])
       /\ rateCount' = IF up THEN [rateCount EXCEPT ![q.user][q.rate.at] = @ + 1]
                       ELSE rateCount
       /\ allowedCalls' = [allowedCalls EXCEPT ![q.user][q.rate.at] = @ + 1]
    /\ up \/ faults < MaxFaults
    /\ faults' = IF up THEN faults ELSE faults + 1
    /\ UNCHANGED <<window, dailyCount, tierCache, invoked, sent>>
    /\ UNCHANGED <<tierVars, limVars, storeVars, auxVars>>

\* checkDailyMessageLimit and the 429 DAILY_LIMIT_EXCEEDED of the route
DailyCheck(r, up) ==
    /\ req[r].pc = "daily"
    /\ LET q == Stage(req[r], "daily")
           d == checkDailyMessageLimit(up, dailyCount[q.user][Today], q.tier, Today)
       IN  req' = Move(r,
              IF d.allowed THEN [q EXCEPT !.pc = "sanitize", !.daily = d]
              ELSE [q EXCEPT !.pc = "done", !.daily = d,
                             !.response = [status |-> 429, code |-> "DAILY_LIMIT_EXCEEDED",
                                           resetsAt |-> d.at]])
    /\ up \/ faults < MaxFaults
    /\ faults' = IF up THEN faults ELSE faults + 1
    /\ UNCHANGED <<window, rateCount, dailyCount, tierCache, allowedCalls, invoked, sent>>
    /\ UNCHANGED <<tierVars, limVars, storeVars, auxVars>>

\* InputValidator.sanitizeInput and containsMaliciousContent: the text is
\* empty once sanitized, or malicious, or one of Messages
Sanitize(r, outcome) ==
    /\ req[r].pc = "sanitize"
    /\ req' = Move(r,
          CASE outcome = "empty"     -> Stop(req[r], 400, "EMPTY_MESSAGE")
            [] outcome = "malicious" -> Stop(req[r], 400, "MALICIOUS_CONTENT")
            [] OTHER                 -> [req[r] EXCEPT !.pc = "intent", !.message = outcome])
    /\ UNCHANGED <<window, faults, rateCount, dailyCount, tierCache, allowedCalls,
                   invoked, sent>>
    /\ UNCHANGED <<tierVars, limVars, storeVars, auxVars>>

ServiceTierOf(q) == TierOfEnum(q.tier)
OriginalIntent(q)   == detectAirtableSearchIntent(q.message)
RestrictedIntent(q) == applyTierRestrictions(OriginalIntent(q), ServiceTierOf(q))

\* generateOpenAIResponseWithTracking: intent detection, tier restrictions,
\* feature tracking, the upsell text
DetectIntent(r) ==
    /\ req[r].pc = "intent"
    /\ LET q == Stage(req[r], "intent") IN
       req' = Move(r,
          [q EXCEPT !.pc = IF RestrictedIntent(q).searchRequired THEN "context" ELSE "prompt",
                    !.upsell = UpsellFor(OriginalIntent(q), RestrictedIntent(q), q.tier)])
    /\ UNCHANGED <<window, faults, rateCount, dailyCount, tierCache, allowedCalls,
                   invoked, sent>>
    /\ UNCHANGED <<tierVars, limVars, storeVars, auxVars>>

\* gatherTieredAirtableContext, run when restrictedIntent.searchRequired
GatherContext(r) ==
    /\ req[r].pc = "context"
    /\ LET q == Stage(req[r], "context") IN
       req' = Move(r,
          [q EXCEPT !.pc = "prompt",
                    !.searched = gatherTieredAirtableContext(RestrictedIntent(q),
                                                             ServiceTierOf(q))])
    /\ UNCHANGED <<window, faults, rateCount, dailyCount, tierCache, allowedCalls,
                   invoked, sent>>
    /\ UNCHANGED <<tierVars, limVars, storeVars, auxVars>>

\* conversation history, buildTieredSystemPrompt, the messages array
AssemblePrompt(r) ==
    /\ req[r].pc = "prompt"
    /\ req' = Move(r, [Stage(req[r], "prompt") EXCEPT !.pc = "model"])
    /\ UNCHANGED <<window, faults, rateCount, dailyCount, tierCache, allowedCalls,
                   invoked, sent>>
    /\ UNCHANGED <<tierVars, limVars, storeVars, auxVars>>

\* openai.chat.completions.create is called
InvokeModel(r) ==
    /\ req[r].pc = "model"
    /\ req' = Move(r, [Stage(req[r], "model") EXCEPT !.pc = "model_wait"])
    /\ invoked' = [invoked EXCEPT ![req[r].user][Today] = @ + 1]
    /\ UNCHANGED <<window, faults, rateCount, dailyCount, tierCache, allowedCalls, sent>>
    /\ UNCHANGED <<tierVars, limVars, storeVars, auxVars>>

\* the content generateOpenAIResponseWithTracking returns: the completion
\* with the upsell text appended (response += upsellMessage), or the fixed
\* fallback apology of the catch branch
ReplyContent(q) ==
    IF q.success THEN [fallback |-> FALSE, upsell |-> q.upsell]
    ELSE [fallback |-> TRUE, upsell |-> {}]

\* the completion arrives (success: true), or the call throws and the catch
\* branch builds the fallback reply (success: false, model 'fallback'): the
\* route goes on to the usage counters either way
ModelReturns(r, ok) ==
    /\ req[r].pc = "model_wait"
    /\ req' = Move(r, [req[r] EXCEPT !.pc = "usage", !.returned = TRUE, !.success = ok])
    /\ UNCHANGED <<window, faults, rateCount, dailyCount, tierCache, allowedCalls,
                   invoked, sent>>
    /\ UNCHANGED <<tierVars, limVars, storeVars, auxVars>>

\* mutant: the daily counter is raised by two
incrementMessageCountTwice(up, count) == IF up THEN count + 2 ELSE count

\* UsageTrackingService.incrementMessageCount: redis.incr on today's key; an
\* error of the counter store is caught and 0 returned, the count unchanged
incrementMessageCount(up, count) == IF up THEN count + 1 ELSE count

\* the route after generateOpenAIResponseWithTracking returned, whatever its
\* success field: incrementMessageCount (and trackTokenUsage)
RecordUsage(r, up) ==
    /\ req[r].pc = "usage"
    /\ req' = Move(r, [Stage(req[r], "usage") EXCEPT !.pc = "respond"])
    /\ dailyCount' = [dailyCount EXCEPT ![req[r].user][Today] =
                          incrementMessageCount(up, @)]
    /\ up \/ faults < MaxFaults
    /\ faults' = IF up THEN faults ELSE faults + 1
    /\ UNCHANGED <<window, rateCount, tierCache, allowedCalls, invoked, sent>>
    /\ UNCHANGED <<tierVars, limVars, storeVars, auxVars>>

\* storeConversationMessages (see SpecStore), the audit entry, the 200 answer
Respond(r) ==
    /\ req[r].pc = "respond"
    /\ req' = Move(r, Stop(req[r], 200, "OK"))
    /\ UNCHANGED <<window, faults, rateCount, dailyCount, tierCache, allowedCalls,
                   invoked, sent>>
    /\ UNCHANGED <<tierVars, limVars, storeVars, auxVars>>

\* the clock enters the next minute window; the cached tiers run out
\* (setex 3600) or not
NextWindow(expired) ==
    /\ window < MaxWindow
    /\ window' = window + 1
    /\ tierCache' = IF expired THEN [u \in PipeUsers |-> "none"] ELSE tierCache
    /\ UNCHANGED <<req, faults, rateCount, dailyCount, allowedCalls, invoked, sent>>
    /\ UNCHANGED <<tierVars, limVars, storeVars, auxVars>>

PipeNext ==
    \/ \E r \in Slots, m \in BOOLEAN, t \in BOOLEAN : Receive(r, m, t)
    \/ \E r \in Slots : VerifySession(r, FALSE, "unknown")
    \/ \E r \in Slots : \E u \in TokensOf(r) : VerifySession(r, TRUE, u)
    \/ \E r \in Slots, up \in BOOLEAN : ResolveTier(r, up)
    \/ \E r \in Slots, up \in BOOLEAN : RateLimitGet(r, up)
    \/ \E r \in Slots, up \in BOOLEAN : RateLimitIncr(r, up)
    \/ \E r \in Slots, up \in BOOLEAN : DailyCheck(r, up)
    \/ \E r \in Slots, o \in Messages \cup {"empty", "malicious"} : Sanitize(r, o)
    \/ \E r \in Slots : DetectIntent(r)
    \/ \E r \in Slots : GatherContext(r)
    \/ \E r \in Slots : AssemblePrompt(r)
    \/ \E r \in Slots : InvokeModel(r)
    \/ \E r \in Slots, ok \in BOOLEAN : ModelReturns(r, ok)
    \/ \E r \in Slots, up \in BOOLEAN : RecordUsage(r, up)
    \/ \E r \in Slots : Respond(r)
    \/ \E expired \in BOOLEAN : NextWindow(expired)

(***************************************************************************)
(* AirtableService.checkUserRateLimit and its caller, auth/verify-user     *)
(***************************************************************************)

\* rows of the User Profiles table by record id: subscriptionStatus as
\* mapUserRecord gives it ('free' | 'paid' | 'premium'); "ghost" has no row
UserRows == {"uf", "up"}
UserIds  == UserRows \cup {"ghost"}
UserStatus(u) == IF u = "uf" THEN "free" ELSE "paid"

\* process.env.RATE_LIMIT_FREE_USER || '20', RATE_LIMIT_PAID_USER || '100'
RateLimitFreeUser == 20
RateLimitPaidUser == 100

\* bound: the checkUserRateLimit calls counted per user and hour
MaxUserCalls == 21

\* bound: the last hour the clock reaches
MaxUserHour == 1

NoUserAnswer == [user |-> "none", allowed |-> FALSE, remaining |-> 0]

\* AirtableService.checkUserRateLimit(userId): { allowed, remaining }
checkUserRateLimit(userId) ==
    IF userId \notin UserRows
    THEN [allowed |-> FALSE, remaining |-> 0]       \* 'User not found', caught
    ELSE LET limit == IF UserStatus(userId) = "free"
                      THEN RateLimitFreeUser ELSE RateLimitPaidUser
         IN  [allowed |-> TRUE, remaining |-> limit - 1]

UserLimInit ==
    /\ userHour = 0
    /\ userCalls = [u \in UserIds |-> 0]
    /\ userLast = NoUserAnswer

\* one call of checkUserRateLimit for user u, as verify-user makes it after
\* a successful authentication
CheckUserRateLimit(u) ==
    LET a == checkUserRateLimit(u) IN
    /\ userCalls[u] < MaxUserCalls
    /\ userCalls' = [userCalls EXCEPT ![u] = IF a.allowed THEN @ + 1 ELSE @]
    /\ userLast' = [user |-> u, allowed |-> a.allowed, remaining |-> a.remaining]
    /\ UNCHANGED userHour
    /\ UNCHANGED <<baseVars, otherThanUserLim>>

\* the hour window (RATE_LIMIT_WINDOW || '3600000') ends
UserHourTick ==
    /\ userHour < MaxUserHour
    /\ userHour' = userHour + 1
    /\ userCalls' = [u \in UserIds |-> 0]
    /\ UNCHANGED userLast
    /\ UNCHANGED <<baseVars, otherThanUserLim>>

UserLimNext == (\E u \in UserIds : CheckUserRateLimit(u)) \/ UserHourTick

(***************************************************************************)
(* SessionManager                                                          *)
(***************************************************************************)

\* bound: the default timeoutMs (30 * 60 * 1000) in clock ticks
SessTimeoutTicks == 2

\* bound: the last clock tick
MaxSessNow == 4

\* the session ids SecurityManager.generateToken(32) hands out, in order
SessIds == 1..2

NoSession == [userId |-> "none", lastActivity |-> -1]
NoValidation == [id |-> 0, at |-> -1, timeout |-> 0, had |-> FALSE, idle |-> 0,
                 wasDead |-> FALSE, ok |-> FALSE, after |-> -1]

\* mutant: a session found expired is refused but kept
validateSessionKeepExpired(map, sessionId, timeoutMs, now) ==
    LET session == map[sessionId] IN
    IF session = NoSession THEN [map |-> map, ok |-> FALSE]
    ELSE IF now - session.lastActivity > timeoutMs
    THEN [map |-> map, ok |-> FALSE]
    ELSE [map |-> [map EXCEPT ![sessionId].lastActivity = now], ok |-> TRUE]

\* SessionManager.validateSession(sessionId, timeoutMs) at Date.now() = now:
\* the new map and the boolean returned
validateSession(map, sessionId, timeoutMs, now) ==
    LET session == map[sessionId] IN
    IF session = NoSession THEN [map |-> map, ok |-> FALSE]
    ELSE IF now - session.lastActivity > timeoutMs
    THEN [map |-> [map EXCEPT ![sessionId] = NoSession], ok |-> FALSE]
    ELSE [map |-> [map EXCEPT ![sessionId].lastActivity = now], ok |-> TRUE]

\* SessionManager.cleanupSessions(timeoutMs)
cleanupSessions(map, timeoutMs, now) ==
    [id \in DOMAIN map |->
        IF map[id] # NoSession /\ now - map[id].lastActivity > timeoutMs
        THEN NoSession ELSE map[id]]

SessInit ==
    /\ sessNow = 0
    /\ sessions = [id \in SessIds |-> NoSession]
    /\ sessMade = 0
    /\ sessDead = {}
    /\ sessLast = NoValidation

\* SessionManager.createSession(userId): a fresh id, lastActivity = now
CreateSession(userId) ==
    /\ sessMade + 1 \in SessIds
    /\ sessMade' = sessMade + 1
    /\ sessions' = [sessions EXCEPT ![sessMade + 1] =
                       [userId |-> userId, lastActivity |-> sessNow]]
    /\ UNCHANGED <<sessNow, sessDead, sessLast>>
    /\ UNCHANGED <<baseVars, otherThanSess>>

\* one call of validateSession with the default timeout
ValidateSession(id) ==
    LET before == sessions[id]
        r == validateSession(sessions, id, SessTimeoutTicks, sessNow)
    IN  /\ sessions' = r.map
        /\ sessDead' = IF before # NoSession /\ ~r.ok THEN sessDead \cup {id} ELSE sessDead
        /\ sessLast' = [id |-> id, at |-> sessNow, timeout |-> SessTimeoutTicks,
                        had |-> before # NoSession,
                        idle |-> IF before # NoSession THEN sessNow - before.lastActivity ELSE 0,
                        wasDead |-> id \in sessDead, ok |-> r.ok,
                        after |-> r.map[id].lastActivity]
        /\ UNCHANGED <<sessNow, sessMade>>
        /\ UNCHANGED <<baseVars, otherThanSess>>

\* SessionManager.destroySession(sessionId)
DestroySession(id) ==
    /\ sessions[id] # NoSession
    /\ sessions' = [sessions EXCEPT ![id] = NoSession]
    /\ sessDead' = sessDead \cup {id}
    /\ UNCHANGED <<sessNow, sessMade, sessLast>>
    /\ UNCHANGED <<baseVars, otherThanSess>>

\* SessionManager.cleanupSessions() with the default timeout
CleanupSessions ==
    /\ sessions' = cleanupSessions(sessions, SessTimeoutTicks, sessNow)
    /\ sessions' # sessions
    /\ sessDead' = sessDead \cup {id \in SessIds : sessions'[id] # sessions[id]}
    /\ UNCHANGED <<sessNow, sessMade, sessLast>>
    /\ UNCHANGED <<baseVars, otherThanSess>>

\* time passes
SessTick ==
    /\ sessNow < MaxSessNow
    /\ sessNow' = sessNow + 1
    /\ UNCHANGED <<sessions, sessMade, sessDead, sessLast>>
    /\ UNCHANGED <<baseVars, otherThanSess>>

SessNext ==
    \/ \E u \in {"A", "B"} : CreateSession(u)
    \/ \E id \in SessIds : ValidateSession(id)
    \/ \E id \in SessIds : DestroySession(id)
    \/ CleanupSessions
    \/ SessTick

(***************************************************************************)
(* AIService.generateResponse                                              *)
(***************************************************************************)

\* const allModels = ['openai', 'claude', 'perplexity']
allModels == <<"openai", "claude", "perplexity">>

\* preferredModel: 'openai' | 'claude' | 'perplexity'
PreferredModels == {"openai", "claude", "perplexity"}

\* array.filter(keep): the elements that satisfy keep, in their order
RECURSIVE FilterOut(_, _)
FilterOut(seq, x) ==
    IF seq = <<>> THEN <<>>
    ELSE IF Head(seq) = x THEN FilterOut(Tail(seq), x)
         ELSE <<Head(seq)>> \o FilterOut(Tail(seq), x)

\* mutant: the preferred model is ignored
getModelFallbackOrderFixed(preferred) == allModels

\* AIService.getModelFallbackOrder: [preferred, ...fallbacks]
getModelFallbackOrder(preferred) == <<preferred>> \o FilterOut(allModels, preferred)

\* what a provider call does: it returns { success: true } or throws
ProviderOutcomes == {"ok", "throw"}

\* the concurrent calls of generateResponse
AICalls == {"a1", "a2"}

NoAIResponse == [model |-> "none", success |-> FALSE, error |-> "none"]
IdleAI == [pc |-> "idle", preferred |-> "none", models |-> <<>>, tried |-> <<>>,
           response |-> NoAIResponse]

AIInit == ai = [a \in AICalls |-> IdleAI]

\* generateResponse(userMessage, context, preferredModel) up to the loop
GenerateResponse(a, preferred) ==
    /\ ai[a].pc \in {"idle", "done"}
    /\ ai' = [ai EXCEPT ![a] = [IdleAI EXCEPT !.pc = "loop", !.preferred = preferred,
                                              !.models = getModelFallbackOrder(preferred)]]
    /\ UNCHANGED <<baseVars, otherThanAI>>

\* one iteration of the loop: callAIModel(model, ...) returns or throws
CallAIModel(a, outcome) ==
    LET q     == ai[a]
        model == q.models[Len(q.tried) + 1]
        tried == Append(q.tried, [model |-> model, outcome |-> outcome])
    IN  /\ q.pc = "loop"
        /\ Len(q.tried) < Len(q.models)
        /\ ai' = [ai EXCEPT ![a] =
              IF outcome = "ok"
              THEN [q EXCEPT !.pc = "done", !.tried = tried,
                             !.response = [model |-> model, success |-> TRUE, error |-> "none"]]
              ELSE [q EXCEPT !.tried = tried]]
        /\ UNCHANGED <<baseVars, otherThanAI>>

\* the loop is over: "All AI models failed"
AllModelsFailed(a) ==
    /\ ai[a].pc = "loop"
    /\ Len(ai[a].tried) = Len(ai[a].models)
    /\ ai' = [ai EXCEPT ![a] = [@ EXCEPT !.pc = "done",
                 !.response = [model |-> "fallback", success |-> FALSE,
                               error |-> "All AI models failed"]]]
    /\ UNCHANGED <<baseVars, otherThanAI>>

AINext ==
    \/ \E a \in AICalls, p \in PreferredModels : GenerateResponse(a, p)
    \/ \E a \in AICalls, o \in ProviderOutcomes : CallAIModel(a, o)
    \/ \E a \in AICalls : AllModelsFailed(a)

(***************************************************************************)
(* GET /api/user/tier                                                      *)
(***************************************************************************)

\* what AirtableService.getUserProfile does for the route: a profile whose
\* subscriptionStatus is fields[...] || 'Free', null, or a throw
ProfileOf(status) ==
    [kind |-> "profile",
     subscriptionStatus |-> IF status.def /\ status.s # <<>> THEN status ELSE Str(<<"Free">>)]
NullProfile  == [kind |-> "null", subscriptionStatus |-> Undefined]
ThrowProfile == [kind |-> "throw", subscriptionStatus |-> Undefined]
ProfileOutcomes == {ProfileOf(s) : s \in StatusInputs} \cup {NullProfile, ThrowProfile}

NoTierResponse == [status |-> 0, success |-> FALSE, code |-> "none", tier |-> "none",
                   serviceTier |-> NoTier, subscriptionStatus |-> Undefined, error |-> FALSE]
IdleTierReq == [pc |-> "idle", hasBearer |-> FALSE, verified |-> FALSE,
                profile |-> NullProfile, failed |-> FALSE, response |-> NoTierResponse]

\* mutant: the catch branch answers with the Premium tier
DefaultTierOnErrorPremium == PremiumTier

\* the catch branch: SubscriptionService.determineUserTier('Free')
DefaultTierOnError == determineUserTier(Str(<<"Free">>))

\* the success response built from a service tier
TierResponse(serviceTier, subscriptionStatus, error) ==
    [status |-> 200, success |-> TRUE, code |-> "none", tier |-> serviceTier.tier,
     serviceTier |-> serviceTier, subscriptionStatus |-> subscriptionStatus, error |-> error]

TierRouteInit == tierReq = IdleTierReq

\* the request arrives: the authorization header, then verifyJWT
TierRouteReceive(hasBearer, tokenValid) ==
    /\ tierReq.pc \in {"idle", "done"}
    /\ tierReq' =
          IF ~hasBearer
          THEN [IdleTierReq EXCEPT !.pc = "done",
                   !.response = [NoTierResponse EXCEPT !.status = 401, !.code = "UNAUTHORIZED"]]
          ELSE IF ~tokenValid
          THEN [IdleTierReq EXCEPT !.pc = "done", !.hasBearer = TRUE,
                   !.response = [NoTierResponse EXCEPT !.status = 401, !.code = "INVALID_SESSION"]]
          ELSE [IdleTierReq EXCEPT !.pc = "profile", !.hasBearer = TRUE, !.verified = TRUE]
    /\ UNCHANGED <<baseVars, otherThanTierRoute>>

\* await AirtableService.getUserProfile(userId)
TierRouteProfile(outcome) ==
    /\ tierReq.pc = "profile"
    /\ tierReq' =
          IF outcome.kind = "throw"
          THEN [tierReq EXCEPT !.pc = "done", !.profile = outcome, !.failed = TRUE,
                   !.response = TierResponse(DefaultTierOnError, Str(<<"Free">>), TRUE)]
          ELSE [tierReq EXCEPT !.pc = "tier", !.profile = outcome]
    /\ UNCHANGED <<baseVars, otherThanTierRoute>>

\* determineUserTier(userProfile?.subscriptionStatus || 'Free') and the
\* response; a step that throws on the way ends in the catch branch
TierRouteAnswer(throws) ==
    /\ tierReq.pc = "tier"
    /\ tierReq' =
          IF throws
          THEN [tierReq EXCEPT !.pc = "done", !.failed = TRUE,
                   !.response = TierResponse(DefaultTierOnError, Str(<<"Free">>), TRUE)]
          ELSE [tierReq EXCEPT !.pc = "done",
                   !.response = TierResponse(TierOfProfile(tierReq.profile.subscriptionStatus),
                                    IF tierReq.profile.kind = "profile"
                                    THEN tierReq.profile.subscriptionStatus
                                    ELSE Str(<<"Free">>), FALSE)]
    /\ UNCHANGED <<baseVars, otherThanTierRoute>>

TierRouteNext ==
    \/ \E b \in BOOLEAN, v \in BOOLEAN : TierRouteReceive(b, v)
    \/ \E o \in ProfileOutcomes : TierRouteProfile(o)
    \/ \E t \in BOOLEAN : TierRouteAnswer(t)

(***************************************************************************)
(* AirtableService.searchOpportunities and searchResources                 *)
(***************************************************************************)

\* the tables the two searches read
SearchTables == {"opportunities", "Resources"}

\* bound: the rows of a table
MaxRows == 3

\* the limit arguments (maxRecords)
SearchLimits == 1..2

\* a table is missing, or holds the rows 1..n
MissingTable == -1

\* the rows select({ maxRecords: limit }).all() gives, or what it throws
SelectAll(table, limit, readFails) ==
    IF table = MissingTable THEN Throw("NOT_FOUND")
    ELSE IF readFails THEN Throw("NETWORK_ERROR")
    ELSE [kind |-> "rows", list |-> [i \in 1..Min(limit, table) |-> i]]

\* searchOpportunities / searchResources: the result of safeTableOperation,
\* then `${result.length}` read from it before it is returned
searchTable(table, limit, readFails) ==
    LET result == safeTableOperation(SelectAll(table, limit, readFails)) IN
    IF result.kind = "null"
    THEN Throw("TypeError: Cannot read properties of null (reading 'length')")
    ELSE result

NoSearch == [fn |-> "none", limit |-> 0, table |-> 0, result |-> NoResult]

SearchInit ==
    /\ tables = [t \in SearchTables |-> 0]
    /\ searchLast = NoSearch

\* searchOpportunities(query, userId, limit)
SearchOpportunities(limit, readFails) ==
    /\ searchLast' = [fn |-> "searchOpportunities", limit |-> limit,
                      table |-> tables["opportunities"],
                      result |-> searchTable(tables["opportunities"], limit, readFails)]
    /\ UNCHANGED tables
    /\ UNCHANGED <<baseVars, otherThanSearch>>

\* searchResources(query, userId, limit)
SearchResources(limit, readFails) ==
    /\ searchLast' = [fn |-> "searchResources", limit |-> limit,
                      table |-> tables["Resources"],
                      result |-> searchTable(tables["Resources"], limit, readFails)]
    /\ UNCHANGED tables
    /\ UNCHANGED <<baseVars, otherThanSearch>>

\* the base changes: a row is added, a table is removed or created
TableChange(t, n) ==
    /\ n # tables[t]
    /\ tables' = [tables EXCEPT ![t] = n]
    /\ UNCHANGED searchLast
    /\ UNCHANGED <<baseVars, otherThanSearch>>

SearchNext ==
    \/ \E l \in SearchLimits, f \in BOOLEAN : SearchOpportunities(l, f)
    \/ \E l \in SearchLimits, f \in BOOLEAN : SearchResources(l, f)
    \/ \E t \in SearchTables, n \in {MissingTable} \cup 0..MaxRows : TableChange(t, n)

(***************************************************************************)
(* The conversation history handed to the model                           *)
(***************************************************************************)

\* the longest stored conversation
MaxHistory == 7
\* the cap of Math.min(conversationHistory * 2, 20)
HistoryFetchCap == 20

MessageRoles == {"user", "assistant", "system"}
HistoryIds   == {"conv1", TempId}

\* the Messages rows of the conversation: the role and the Timestamp rank
StoredMessages(roles) == [i \in DOMAIN roles |-> [role |-> roles[i], at |-> i]]

NotSystem(msg) == msg.role # "system"

\* getConversationMessages as the history call uses it: an unknown or foreign
\* conversation and a failed read end as [] (safeTableOperation gives null),
\* else the rows sorted by Timestamp ascending, cut by maxRecords: limit
HistoryRows(roles, found, limit) ==
    IF ~found THEN <<>> ELSE FirstN(StoredMessages(roles), limit)

\* gatherTieredConversationContext: [] for an id starting with 'temp_', else
\* the rows fetched, the system messages filtered out, slice(-limit)
gatherTieredConversationContext(roles, conversationId, found, serviceTier) ==
    IF StartsWithTemp(conversationId) THEN <<>>
    ELSE LET maxMessages == Min(serviceTier.limits.conversationHistory * 2, HistoryFetchCap)
             messages    == HistoryRows(roles, found, maxMessages)
         IN  LastN(SelectSeq(messages, NotSystem), serviceTier.limits.conversationHistory)

\* generateOpenAIResponseWithTracking: the history pushed into the messages
\* array, conversationHistory.slice(-limit)
historyToInclude(conversationHistory, serviceTier) ==
    LastN(conversationHistory, serviceTier.limits.conversationHistory)

NoHistory == [tier |-> "none", conversationId |-> "none", found |-> FALSE,
              called |-> FALSE, history |-> <<>>]

HistInit ==
    /\ histConv = <<>>
    /\ histLast = NoHistory

\* a message is stored in the conversation; the result of an earlier history
\* call is no longer looked at
HistStore(role) ==
    /\ Len(histConv) < MaxHistory
    /\ histConv' = Append(histConv, role)
    /\ histLast' = NoHistory
    /\ UNCHANGED <<baseVars, otherThanHist>>

\* a request of a user of the given tier gathers the history of the
\* conversation (found: the conversation is read as the user's own)
HistGather(tier, conversationId, found) ==
    /\ histLast' = [tier |-> tier, conversationId |-> conversationId, found |-> found,
                    called |-> TRUE,
                    history |-> historyToInclude(
                        gatherTieredConversationContext(histConv, conversationId, found,
                                                        TierOfEnum(tier)),
                        TierOfEnum(tier))]
    /\ UNCHANGED histConv
    /\ UNCHANGED <<baseVars, otherThanHist>>

HistNext ==
    \/ \E role \in MessageRoles : HistStore(role)
    \/ \E tier \in {FREE, PREMIUM, FOUNDER}, id \in HistoryIds, found \in BOOLEAN :
          HistGather(tier, id, found)

(***************************************************************************)
(* The lazy table detection of airtable.ts                                *)
(***************************************************************************)

\* the callers of ensureTablesInitialized that may overlap
EnsureCallers == {"c1", "c2"}
\* keys of TABLE_VARIATIONS, in the order of Object.entries
TableKeys == <<"conversations", "messages">>
TableKeySet == {TableKeys[i] : i \in DOMAIN TableKeys}

\* a key without entry, base(detectedName), the placeholder object
NoTableRef  == "undefined"
RealTable   == "table"
Placeholder == "placeholder"

\* let tables = {}
EmptyTables == [k \in TableKeySet |-> NoTableRef]

IdleEnsure == [pc |-> "idle", detectedTables |-> EmptyTables]

EnsureInit ==
    /\ tableRefs = EmptyTables
    /\ tablesInitialized = FALSE
    /\ ensure = [c \in EnsureCallers |-> IdleEnsure]
    /\ initRuns = 0
    /\ ensReturned = FALSE

\* the first key of TABLE_VARIATIONS the loop of initializeTables has not
\* reached yet, 0 when the loop is over
NextTableKey(detectedTables) ==
    IF \A i \in DOMAIN TableKeys : detectedTables[TableKeys[i]] # NoTableRef THEN 0
    ELSE CHOOSE i \in DOMAIN TableKeys :
            /\ detectedTables[TableKeys[i]] = NoTableRef
            /\ \A j \in 1..(i - 1) : detectedTables[TableKeys[j]] # NoTableRef

\* ensureTablesInitialized is called: with the flag set it returns at once,
\* else initializeTables starts and the call waits for it
EnsureCall(c) ==
    /\ ensure[c].pc = "idle"
    /\ IF tablesInitialized
       THEN /\ ensure' = [ensure EXCEPT ![c].pc = "returned"]
            /\ ensReturned' = TRUE
            /\ UNCHANGED initRuns
       ELSE /\ ensure' = [ensure EXCEPT ![c] = [pc |-> "init", detectedTables |-> EmptyTables]]
            /\ initRuns' = initRuns + 1
            /\ UNCHANGED ensReturned
    /\ UNCHANGED <<tableRefs, tablesInitialized>>
    /\ UNCHANGED <<baseVars, otherThanEnsure>>

\* initializeTables, one turn of its loop: detectTableName found a table of
\* the key or none, the real table or the placeholder is entered
DetectTable(c, found) ==
    /\ ensure[c].pc = "init"
    /\ NextTableKey(ensure[c].detectedTables) # 0
    /\ ensure' = [ensure EXCEPT
          ![c].detectedTables[TableKeys[NextTableKey(ensure[c].detectedTables)]] =
              IF found THEN RealTable ELSE Placeholder]
    /\ UNCHANGED <<tableRefs, tablesInitialized, initRuns, ensReturned>>
    /\ UNCHANGED <<baseVars, otherThanEnsure>>

\* initializeTables returned: tables = detectedTables, the flag is set and
\* ensureTablesInitialized returns
EnsureFinish(c) ==
    /\ ensure[c].pc = "init"
    /\ NextTableKey(ensure[c].detectedTables) = 0
    /\ tableRefs' = ensure[c].detectedTables
    /\ tablesInitialized' = TRUE
    /\ ensure' = [ensure EXCEPT ![c].pc = "returned"]
    /\ ensReturned' = TRUE
    /\ UNCHANGED initRuns
    /\ UNCHANGED <<baseVars, otherThanEnsure>>

\* the operation of safeTableOperation runs on `tables` and the caller is
\* free for its next call
TableOperation(c) ==
    /\ ensure[c].pc = "returned"
    /\ ensure' = [ensure EXCEPT ![c] = IdleEnsure]
    /\ UNCHANGED <<tableRefs, tablesInitialized, initRuns, ensReturned>>
    /\ UNCHANGED <<baseVars, otherThanEnsure>>

EnsureNext ==
    \/ \E c \in EnsureCallers : EnsureCall(c)
    \/ \E c \in EnsureCallers, found \in BOOLEAN : DetectTable(c, found)
    \/ \E c \in EnsureCallers : EnsureFinish(c)
    \/ \E c \in EnsureCallers : TableOperation(c)

(***************************************************************************)
(* The specifications                                                      *)
(***************************************************************************)

\* the base components at rest, and the added components in their initial state
BaseIdle == TierIdle /\ LimIdle /\ StoreIdle /\ PipeIdle
AuxInit  == UserLimInit /\ SessInit /\ AIInit /\ TierRouteInit /\ SearchInit /\ HistInit
            /\ EnsureInit

TierNext == DetermineTier \/ NextStatus

LimNext == VerifyUserStep \/ OtherCallStep \/ LimTick \/ LimCleanup

InitTier    == TierInit /\ LimIdle /\ StoreIdle /\ PipeIdle /\ AuxInit
InitLimiter == TierIdle /\ LimInit /\ StoreIdle /\ PipeIdle /\ AuxInit
InitStore   == TierIdle /\ LimIdle /\ StoreInit /\ PipeIdle /\ AuxInit
InitLegacy  == TierIdle /\ LimIdle /\ StoreIdle /\ PipeIdle /\ AuxInit
Init        == TierIdle /\ LimIdle /\ StoreIdle /\ PipeInit /\ AuxInit

NextTier    == TierNext
NextLimiter == LimNext
NextStore   == StoreNext
NextLegacy  == LegacyNext
Next        == PipeNext

SpecTier    == InitTier /\ [][NextTier]_vars
SpecLimiter == InitLimiter /\ [][NextLimiter]_vars
SpecStore   == InitStore /\ [][NextStore]_vars
SpecLegacy  == InitLegacy /\ [][NextLegacy]_vars
Spec        == Init /\ [][Next]_vars

InitUserLimit == BaseIdle /\ AuxInit
NextUserLimit == UserLimNext
SpecUserLimit == InitUserLimit /\ [][NextUserLimit]_vars

InitSession == BaseIdle /\ AuxInit
NextSession == SessNext
SpecSession == InitSession /\ [][NextSession]_vars

InitAI == BaseIdle /\ AuxInit
NextAI == AINext
SpecAI == InitAI /\ [][NextAI]_vars

InitTierRoute == BaseIdle /\ AuxInit
NextTierRoute == TierRouteNext
SpecTierRoute == InitTierRoute /\ [][NextTierRoute]_vars

InitSearch == BaseIdle /\ AuxInit
NextSearch == SearchNext
SpecSearch == InitSearch /\ [][NextSearch]_vars

InitHistory == BaseIdle /\ AuxInit
NextHistory == HistNext
SpecHistory == InitHistory /\ [][NextHistory]_vars

InitEnsure == BaseIdle /\ AuxInit
NextEnsure == EnsureNext
SpecEnsure == InitEnsure /\ [][NextEnsure]_vars

(***************************************************************************)
(* Properties of the send-message route                                    *)
(***************************************************************************)

\* C1: a request that carries a message but no session token is answered
\* 401 UNAUTHORIZED and ends there: it runs no stage at all (no session
\* verification, tier lookup, rate-limit check, model invocation or usage
\* recording) and holds no tier and no result of a check.
C1_NoTokenUnauthorized ==
    \A r \in Slots :
        (req[r].pc # "idle" /\ req[r].hasMessage /\ ~req[r].hasToken)
        => /\ req[r].pc = "done"
           /\ req[r].response = [status |-> 401, code |-> "UNAUTHORIZED", resetsAt |-> -1]
           /\ req[r].stages = <<>>
           /\ req[r].tier = "none"
           /\ req[r].rate = NoLimit
           /\ req[r].daily = NoLimit

\* C1 witness: such a request has been answered 401
C1_Witness ==
    \E r \in Slots :
        /\ req[r].pc = "done" /\ req[r].hasMessage /\ ~req[r].hasToken
        /\ req[r].response.status = 401

Has(stages, name) == \E i \in DOMAIN stages : stages[i] = name

\* the step in which request r leaves the daily-quota check
DailyStep(r) == req[r].pc = "daily" /\ req'[r].pc # "daily"

\* the messagesPerDay limit of a tier value: 50 Free, 500 Premium, 1000 Founder
DailyLimitOf(tier) ==
    CASE tier = PREMIUM -> 500
      [] tier = FOUNDER -> 1000
      [] OTHER          -> 50

\* the answer of a request refused by the daily-quota check on day d
DailyRefusal(q, d) ==
    /\ q.pc = "done"
    /\ q.response = [status |-> 429, code |-> "DAILY_LIMIT_EXCEEDED", resetsAt |-> d + 1]
    /\ ~Has(q.stages, "model") /\ ~Has(q.stages, "usage")

\* C2 as written: whenever a request reaches the daily-quota check while the
\* user's stored count of the day is at or above the limit of the tier, it is
\* answered 429 DAILY_LIMIT_EXCEEDED with the next day as reset time, without
\* a model invocation and without an increment of the count.
C2_AsWritten ==
    [][\A r \in Slots :
          (DailyStep(r) /\ dailyCount[req[r].user][Today] >= DailyLimitOf(req[r].tier))
          => /\ DailyRefusal(req'[r], Today)
             /\ UNCHANGED <<dailyCount, invoked>>]_vars

\* C2: whenever the daily-quota check of a request reads (the counter store
\* answering) a count of the day at or above the limit of the tier, the
\* request is answered 429 DAILY_LIMIT_EXCEEDED with the next day as reset
\* time, the model is not invoked and the count is not incremented; and a
\* request answered so never has a model or usage stage.
C2_DailyLimitRefused ==
    [][\A r \in Slots :
          /\ (DailyStep(r) /\ faults' = faults
                /\ dailyCount[req[r].user][Today] >= DailyLimitOf(req[r].tier))
             => /\ DailyRefusal(req'[r], Today)
                /\ req'[r].daily.current = dailyCount[req[r].user][Today]
                /\ req'[r].daily.limit = DailyLimitOf(req[r].tier)
                /\ UNCHANGED <<dailyCount, invoked>>
          /\ req'[r].response.code = "DAILY_LIMIT_EXCEEDED"
             => (req'[r].pc = "done" /\ ~Has(req'[r].stages, "model")
                 /\ ~Has(req'[r].stages, "usage"))]_vars

\* C2 witness: a request was refused by the daily-quota check at the limit
C2_Witness ==
    \E r \in Slots :
        /\ req[r].pc = "done"
        /\ req[r].response.code = "DAILY_LIMIT_EXCEEDED"
        /\ req[r].daily.current >= req[r].daily.limit
        /\ req[r].daily.limit = 50
        /\ dailyCount[req[r].user][req[r].response.resetsAt - 1] = req[r].daily.current

\* the order of the stages
StageOrder == <<"session", "tier", "rate", "daily", "intent", "context", "prompt",
                "model", "usage">>
StageIndex(name) == CHOOSE i \in DOMAIN StageOrder : StageOrder[i] = name

\* the stages of a request follow StageOrder, none twice
InOrder(stages) ==
    /\ \A i \in DOMAIN stages : Has(StageOrder, stages[i])
    /\ \A i, j \in DOMAIN stages : i < j => StageIndex(stages[i]) < StageIndex(stages[j])

\* the stages a request has run when it ends with the given answer
StoppedAt(code) ==
    CASE code \in {"INVALID_MESSAGE", "UNAUTHORIZED"}     -> <<>>
      [] code = "INVALID_SESSION"                         -> <<"session">>
      [] code = "RATE_LIMIT_EXCEEDED"                     -> <<"session", "tier", "rate">>
      [] code \in {"DAILY_LIMIT_EXCEEDED", "EMPTY_MESSAGE", "MALICIOUS_CONTENT"}
                                                          -> <<"session", "tier", "rate", "daily">>

StageRule(q) ==
    /\ InOrder(q.stages)
    /\ Has(q.stages, "model")
       => /\ q.rate.checked /\ q.rate.allowed /\ q.daily.checked /\ q.daily.allowed
          /\ \A n \in {"session", "tier", "rate", "daily", "intent", "prompt"} : Has(q.stages, n)
    /\ Has(q.stages, "usage") => (Has(q.stages, "model") /\ q.returned)
    /\ q.returned => Has(q.stages, "model")
    /\ (q.pc = "done" /\ q.response.code # "OK") => q.stages = StoppedAt(q.response.code)
    /\ (q.pc = "done" /\ q.response.code = "OK") => Has(q.stages, "usage")

C3_WitnessStopped ==
    \E r \in Slots :
        req[r].pc = "done" /\ req[r].response.code = "RATE_LIMIT_EXCEEDED"

\* the limits of a user, from the Subscription_Status of the profile
DailyLimitOfUser(u) == IF u = "u2" THEN 500 ELSE 50
RateLimitOfUser(u)  == IF u = "u2" THEN 20 ELSE 3

\* C4: for every user and day the requests of the user that reach the model
\* invocation never exceed messagesPerDay of the user's tier, the counter
\* store answering every call.
C4_DailyQuotaNeverExceeded ==
    faults = 0 =>
        \A u \in PipeUsers, d \in Days : invoked[u][d] <= DailyLimitOfUser(u)

\* C5: for every user and window checkRateLimit answers allowed=true at most
\* maxRequests times and the stored counter of the window never exceeds
\* maxRequests, the counter store answering every call.
C5_RateWindowNeverExceeded ==
    faults = 0 =>
        \A u \in PipeUsers, w \in 0..MaxWindow :
            /\ allowedCalls[u][w] <= RateLimitOfUser(u)
            /\ rateCount[u][w] <= RateLimitOfUser(u)

\* C8: a request of a Free user never performs the opportunities search or
\* the matches lookup, whatever the message; a request that performs one of
\* them is of a Premium or Founder user.
C8_FreeNeverSearchesPaid ==
    \A r \in Slots :
        /\ req[r].tier = FREE => req[r].searched \cap {"opportunities", "matches"} = {}
        /\ req[r].searched \cap {"opportunities", "matches"} # {}
           => req[r].tier \in {PREMIUM, FOUNDER}

\* C8 witness: a Free user asked for jobs, the context stage ran and no
\* lookup was made
C8_Witness ==
    \E r \in Slots :
        /\ req[r].tier = FREE /\ req[r].message = "jobs"
        /\ Has(req[r].stages, "context") /\ req[r].searched = {}

(***************************************************************************)
(* Properties of the in-memory RateLimiter                                 *)
(***************************************************************************)

\* the limit each identifier is called with
LimitOf(id) == IF id = OtherKey THEN OtherLimit ELSE AuthLimit

\* C6: per identifier and window at most limit calls are allowed and the
\* stored count never exceeds limit; the remaining a call reports is limit
\* minus the stored count and never negative; a call is refused exactly when
\* limit calls of the window were allowed before it, so that the 11th
\* verify-user attempt of a client address in a window is answered 429.
C6_LimiterBounded ==
    /\ \A id \in Identifiers :
          /\ limAllowed[id] <= LimitOf(id)
          /\ requests[id].count <= LimitOf(id)
          /\ requests[id] # NoEntry => requests[id].count = limAllowed[id]
    /\ (limLast # NoCall /\ limLast.status # 400)
       => /\ limLast.remaining >= 0
          /\ requests[limLast.id] # NoEntry
             => limLast.remaining = limLast.limit - requests[limLast.id].count
          /\ limLast.allowed <=> limLast.prior < limLast.limit
          /\ limLast.status = 429 <=> ~limLast.allowed
          /\ (limLast.limit = 10 /\ limLast.prior = 10) => limLast.status = 429

\* C6 witness: the 11th verify-user attempt of ip1 in a window was refused
C6_Witness ==
    /\ limLast.id = AuthKey("ip1") /\ limLast.prior = 10
    /\ limLast.status = 429 /\ limLast.remaining = 0
    /\ requests[AuthKey("ip1")].count = 10

(***************************************************************************)
(* Properties of determineUserTier                                         *)
(***************************************************************************)

\* the status is the word, with any white space before and after it
IsPadded(status, word) ==
    /\ status.def
    /\ \E k \in DOMAIN status.s :
          /\ status.s[k] = word
          /\ \A i \in DOMAIN status.s : i # k => status.s[i] = " "

\* C7: determineUserTier answers every input with one of three results: the
\* Founder tier exactly for the trimmed status 'Founder Club', the Premium
\* tier exactly for 'Premium', the Free tier for every other input; features
\* and limits are the fixed configuration of the tier.
C7_ThreeTiers ==
    tierOut # NoTier =>
        /\ tierOut \in {FounderTier, PremiumTier, FreeTier}
        /\ tierOut.tier = FOUNDER <=> IsPadded(tierIn, "Founder Club")
        /\ tierOut.tier = PREMIUM <=> IsPadded(tierIn, "Premium")
        /\ tierOut.tier = FREE
           <=> ~IsPadded(tierIn, "Founder Club") /\ ~IsPadded(tierIn, "Premium")
        /\ tierOut.limits =
              CASE tierOut.tier = FOUNDER ->
                     [messagesPerDay |-> 1000, conversationHistory |-> 25, maxTokens |-> 2000]
                [] tierOut.tier = PREMIUM ->
                     [messagesPerDay |-> 500, conversationHistory |-> 20, maxTokens |-> 1500]
                [] OTHER ->
                     [messagesPerDay |-> 50, conversationHistory |-> 3, maxTokens |-> 500]
        /\ tierOut.features.resources
        /\ \A f \in {"opportunities", "matches", "fullMemory", "personalizedGreeting",
                     "webSearch", "smartRouting"} :
              tierOut.features[f] <=> tierOut.tier # FREE
        /\ tierOut.hasFullAccess <=> tierOut.tier # FREE
        /\ tierOut.modelToUse = IF tierOut.tier = FREE THEN "gpt-3.5-turbo" ELSE "gpt-4o-mini"

\* C7 witness: a padded 'Premium' gave the Premium tier
C7_Witness ==
    tierIn = Str(<<" ", "Premium", " ">>) /\ tierOut = PremiumTier

\* C7 witness of the default: another case of a tier name gave the Free tier
C7_WitnessOther ==
    tierIn = Str(<<"premium">>) /\ tierOut = FreeTier

(***************************************************************************)
(* Properties of the conversation store                                    *)
(***************************************************************************)

\* the operation that returned last was a read by someone other than the owner
ForeignRead(o) ==
    /\ o.pc = "done" /\ o.op \in {"getConversation", "getConversationMessages"}
    /\ convs[o.conv].exists /\ convs[o.conv].user # o.user

\* C9: getConversation and getConversationMessages never return a
\* conversation or a message of it to a caller who is not its owner: the
\* caller gets an error, or null or an empty list.
C9_OwnerOnly ==
    \A s \in Callers :
        ForeignRead(ops[s])
        => /\ ops[s].result.kind \in {"throw", "null", "msgs"}
           /\ ops[s].result.kind = "msgs" => ops[s].result.list = <<>>

\* C9 witness: a caller asked for the stored messages of another user's
\* conversation and got the error
C9_Witness ==
    \E s \in Callers :
        /\ ForeignRead(ops[s]) /\ ops[s].op = "getConversationMessages"
        /\ RowsOf(msgs, ops[s].conv) # <<>>
        /\ ops[s].result = Throw("Unauthorized access to conversation")

\* a stored user row keeps the plain text out of Content
RowMasked(row, isEncrypted) ==
    (row.role = "user" /\ ContainsPII(row.orig))
    => /\ row.content # row.orig
       /\ ~ContainsPII(row.content)
       /\ row.encrypted.cipher => (isEncrypted /\ Decrypt(row.encrypted) = row.orig)

\* C10: every operation that writes the text of a user message stores it
\* masked or redacted: the stored Content is never the original text when
\* that text contains PII, whether addMessage wrote the row or
\* AirtableService.storeConversationMessages did.
C10_StoredMasked ==
    /\ \A i \in DOMAIN msgs : RowMasked(msgs[i], convs[msgs[i].conv].enc)
    /\ \A i \in DOMAIN legacy :
          (legacy[i].role = "user" /\ ContainsPII(legacy[i].orig))
          => legacy[i].content # legacy[i].orig

(***************************************************************************)
(* Properties of the subscription-based rate limit                         *)
(***************************************************************************)

\* the hourly limit the subscription of a user gives
HourlyLimitOf(u) == IF UserStatus(u) = "free" THEN 20 ELSE 100

\* C11: within an hour a free user is allowed at most 20 times and a paid
\* user at most 100 times by the subscription-based rate limit; further
\* calls within that hour are refused.
C11_SubscriptionHourlyLimit ==
    \A u \in UserRows : userCalls[u] <= HourlyLimitOf(u)

(***************************************************************************)
(* Properties of SessionManager                                            *)
(***************************************************************************)

\* C12 as written: a validation succeeds only while less than the timeout
\* has passed since the creation or the last successful validation.
C12_AsWritten ==
    sessLast.ok => (sessLast.had /\ sessLast.idle < sessLast.timeout)

\* C12: a validation succeeds exactly when the session is stored and no more
\* than the timeout has passed since its creation or its last successful
\* validation; a successful validation restarts the idle period; a session
\* that failed a validation for timeout, was cleaned up or was destroyed is
\* removed and never validates again.
C12_SessionTimeout ==
    /\ sessLast # NoValidation
       => /\ sessLast.ok <=> (sessLast.had /\ sessLast.idle <= sessLast.timeout)
          /\ sessLast.ok => sessLast.after = sessLast.at
          /\ ~sessLast.ok => sessLast.after = -1
          /\ sessLast.wasDead => ~sessLast.ok
    /\ \A id \in sessDead : sessions[id] = NoSession
    /\ \A id \in SessIds : sessions[id] # NoSession => sessions[id].lastActivity <= sessNow

\* C12 witness: a session idle for exactly the timeout validated and its
\* idle period restarted, while another session had been removed before
C12_Witness ==
    /\ sessLast.ok /\ sessLast.idle = sessLast.timeout
    /\ sessions[sessLast.id].lastActivity = sessNow
    /\ sessDead # {}

(***************************************************************************)
(* Properties of AIService.generateResponse                                *)
(***************************************************************************)

\* the position of a provider in the fixed order openai, claude, perplexity
ProviderRank(m) == CASE m = "openai" -> 1 [] m = "claude" -> 2 [] m = "perplexity" -> 3

\* C13: generateResponse tries the preferred provider first, then the other
\* providers in the order openai, claude, perplexity, each at most once and
\* only after all tried before it failed; it returns the response of the
\* first provider that succeeds, and the fallback with success=false exactly
\* when all three providers have failed.
C13_ProviderFallback ==
    \A a \in AICalls :
        LET q == ai[a] IN
        q.pc # "idle" =>
            /\ Len(q.tried) <= 3
            /\ q.tried # <<>> => q.tried[1].model = q.preferred
            /\ \A i, j \in DOMAIN q.tried :
                  i < j => /\ q.tried[i].model # q.tried[j].model
                           /\ q.tried[i].outcome = "throw"
                           /\ i > 1 => ProviderRank(q.tried[i].model) < ProviderRank(q.tried[j].model)
            /\ (q.pc = "done" /\ q.response.success)
                  => /\ q.tried # <<>>
                     /\ q.tried[Len(q.tried)].outcome = "ok"
                     /\ q.response.model = q.tried[Len(q.tried)].model
            /\ (q.pc = "done" /\ ~q.response.success)
                  => /\ q.response.model = "fallback"
                     /\ Len(q.tried) = 3
                     /\ \A i \in DOMAIN q.tried : q.tried[i].outcome = "throw"
            /\ q.pc = "loop" => \A i \in DOMAIN q.tried : q.tried[i].outcome = "throw"

\* C13 witness: claude preferred and failing, openai failing, perplexity answers
C13_Witness ==
    \E a \in AICalls :
        /\ ai[a].pc = "done" /\ ai[a].preferred = "claude"
        /\ ai[a].tried = <<[model |-> "claude", outcome |-> "throw"],
                           [model |-> "openai", outcome |-> "throw"],
                           [model |-> "perplexity", outcome |-> "ok"]>>
        /\ ai[a].response = [model |-> "perplexity", success |-> TRUE, error |-> "none"]

(***************************************************************************)
(* Properties of GET /api/user/tier                                        *)
(***************************************************************************)

\* C14: a request whose session token verifies is always answered success
\* with a tier; when the profile could not be fetched, was absent, or a later
\* step failed, the tier is Free with the Free features and limits; a
\* Premium or Founder tier is answered only for a fetched profile whose
\* status is that tier.
C14_TierRouteDefaultsToFree ==
    (tierReq.pc = "done" /\ tierReq.verified) =>
        /\ tierReq.response.success /\ tierReq.response.status = 200
        /\ tierReq.response.tier \in SubscriptionTier
        /\ tierReq.response.serviceTier \in {FreeTier, PremiumTier, FounderTier}
        /\ (tierReq.profile.kind # "profile" \/ tierReq.failed)
              => /\ tierReq.response.tier = FREE
                 /\ tierReq.response.serviceTier.features = FreeTier.features
                 /\ tierReq.response.serviceTier.limits = FreeTier.limits
        /\ tierReq.response.tier # FREE
              => /\ tierReq.profile.kind = "profile" /\ ~tierReq.failed
                 /\ tierReq.response.serviceTier
                       = determineUserTier(tierReq.profile.subscriptionStatus)

\* C14 witness: the profile of a verified session could not be fetched and
\* the answer is success with the Free tier
C14_Witness ==
    /\ tierReq.pc = "done" /\ tierReq.verified /\ tierReq.profile.kind = "throw"
    /\ tierReq.response.success /\ tierReq.response.serviceTier = FreeTier

(***************************************************************************)
(* Properties of the table searches                                        *)
(***************************************************************************)

\* C15: searchOpportunities and searchResources return at most limit rows of
\* the table, and when the table is missing (the read fails with a not-found
\* error) they return the empty list and do not throw.
C15_SearchBoundedAndSafe ==
    searchLast # NoSearch =>
        /\ searchLast.result.kind = "rows"
              => /\ Len(searchLast.result.list) <= searchLast.limit
                 /\ \A i \in DOMAIN searchLast.result.list :
                       searchLast.result.list[i] \in 1..searchLast.table
        /\ searchLast.table = MissingTable
              => searchLast.result = [kind |-> "rows", list |-> <<>>]

(***************************************************************************)
(* Properties of storing a conversation through the send-message route     *)
(***************************************************************************)

\* the conversation holds a user message followed by the assistant reply
HoldsExchange(c) ==
    LET rows == RowsOf(msgs, c) IN
    \E i, j \in DOMAIN rows :
        i < j /\ rows[i].role = "user" /\ rows[j].role = "assistant"

\* C16: when storeConversationMessages of the route has returned for a
\* conversationId that does not start with 'temp_', a conversation with that
\* id exists and the user message and the assistant reply are stored under
\* it; for an id starting with 'temp_' it returned without storing.
C16_RouteStoresExchange ==
    \A s \in Callers :
        (ops[s].op = "storeRoute" /\ ops[s].pc = "done")
        => IF StartsWithTemp(ops[s].conv)
           THEN ops[s].result.kind = "skipped"
           ELSE /\ convs[ops[s].conv].exists
                /\ HoldsExchange(ops[s].conv)

\* slot s is inside storeConversationMessages of the route and takes the step
RouteStep(s) ==
    /\ ops[s].op = "storeRoute"
    /\ ops[s].pc \in {"sget", "screate", "select", "create", "update"}
    /\ ops'[s] # ops[s]

\* C17: no step of storeConversationMessages made for user A adds a message
\* to, or changes the Message_Count of, a conversation whose User_ID is
\* another user, whatever conversationId A supplied.
C17_NoWriteToForeignConversation ==
    [][\A s \in Callers, c \in GenIds :
          (RouteStep(s) /\ convs[c].exists /\ convs[c].user # ops[s].user)
          => /\ convs'[c] = convs[c]
             /\ RowsOf(msgs', c) = RowsOf(msgs, c)]_vars

\* an addMessage call has read the conversation row and not yet returned
AddInProgress(c) ==
    \E s \in Callers : ops[s].conv = c /\ ops[s].pc \in {"create", "update"}

\* C18: whenever no addMessage call is in progress for a conversation, its
\* Message_Count equals the number of message rows stored for it.
C18_MessageCountMatchesRows ==
    \A c \in GenIds :
        (convs[c].exists /\ ~AddInProgress(c))
        => convs[c].count = Len(RowsOf(msgs, c))

(***************************************************************************)
(* Properties of the limit checks when the counter store fails             *)
(***************************************************************************)

\* request r takes a step in which a call to the counter store throws
FaultStep(r) == faults' = faults + 1 /\ req'[r] # req[r]

\* C19: when the counter store throws inside checkRateLimit (at the get or at
\* the incr) the rate-limit check reports allowed and the request goes on to
\* the daily check; when it throws inside checkDailyMessageLimit the check
\* reports allowed with limit 999999 and the request goes on towards the
\* model invocation; a request whose check failed open is never answered
\* with the refusal of that check.
C19_FailOpen ==
    [][\A r \in Slots :
          /\ (FaultStep(r) /\ req[r].pc \in {"rate", "rate_incr"})
             => /\ req'[r].rate.checked /\ req'[r].rate.allowed
                /\ req'[r].pc = "daily"
                /\ req'[r].response = NoResponse
          /\ (FaultStep(r) /\ req[r].pc = "daily")
             => /\ req'[r].daily.checked /\ req'[r].daily.allowed
                /\ req'[r].daily.current = 0 /\ req'[r].daily.limit = FailOpenLimit
                /\ req'[r].pc = "sanitize"
                /\ req'[r].response = NoResponse
          /\ req'[r].daily.limit = FailOpenLimit
             => req'[r].response.code \notin {"DAILY_LIMIT_EXCEEDED", "RATE_LIMIT_EXCEEDED"}]_vars

\* C19 witness: the daily check of a user at the limit failed open and the
\* request reached the model invocation
C19_Witness ==
    \E r \in Slots :
        /\ req[r].daily.limit = FailOpenLimit /\ Has(req[r].stages, "model")
        /\ dailyCount[req[r].user][Today] >= DailyLimitOf(req[r].tier)

(***************************************************************************)
(* Properties of the window of the in-memory RateLimiter                   *)
(***************************************************************************)

\* the step is a call of RateLimiter.checkRateLimit
LimiterCallStep == limLast' # limLast /\ limLast'.status # 400

\* C20: a denied call of the in-memory RateLimiter leaves the stored count
\* and resetTime of the identifier unchanged and reports that resetTime; the
\* first call made after resetTime has passed is allowed, sets the count to 1
\* and starts a window that ends windowMs after the call.
C20_DeniedCallKeepsWindow ==
    [][LimiterCallStep =>
          LET id == limLast'.id
              e  == requests[id]
          IN  /\ ~limLast'.allowed
                 => /\ requests' = requests
                    /\ limLast'.resetTime = e.resetTime
                    /\ e.count >= limLast'.limit /\ limNow <= e.resetTime
              /\ (e # NoEntry /\ limNow > e.resetTime)
                 => /\ limLast'.allowed
                    /\ requests'[id] = [count |-> 1, resetTime |-> limNow + AuthWindowTicks]
                    /\ limLast'.resetTime = limNow + AuthWindowTicks
                    /\ \A o \in Identifiers \ {id} : requests'[o] = requests[o]]_vars

\* C20 witness: a call made after the start of the window was denied and the
\* window still ends where it ended
C20_Witness ==
    /\ limLast.id = OtherKey /\ ~limLast.allowed /\ limLast.status = 429
    /\ requests[OtherKey].resetTime = limLast.resetTime
    /\ limNow > requests[OtherKey].resetTime - AuthWindowTicks
    /\ limNow <= requests[OtherKey].resetTime


(***************************************************************************)
(* The daily count and the model invocation                               *)
(***************************************************************************)

\* the step in which the route runs incrementMessageCount for request r
UsageStep(r) == req[r].pc = "usage" /\ req'[r].pc = "respond"

\* the count of r's user for today goes up by one and no other count moves
CountedOnce(r) == dailyCount' = [dailyCount EXCEPT ![req[r].user][Today] = @ + 1]

\* no step other than the usage step of a request that reached the model
\* changes a daily count, and a request answered after the model was invoked
\* has run its usage step
CountOnlyAfterModel ==
    /\ \A r \in Slots : UsageStep(r) => (Has(req[r].stages, "model") /\ req[r].returned)
    /\ (\A r \in Slots : ~UsageStep(r)) => dailyCount' = dailyCount
    /\ \A r \in Slots :
          (req'[r].pc = "done" /\ Has(req'[r].stages, "model")) => Has(req'[r].stages, "usage")
    /\ \A r \in Slots :
          (req'[r].pc = "done" /\ req'[r].response.status \in {400, 401, 429})
             => ~Has(req'[r].stages, "model") /\ ~Has(req'[r].stages, "usage")

RatePassStep(r) == req[r].pc \in {"rate", "rate_incr"} /\ req'[r].pc = "daily"

\* one slot of the window the check computed is taken for r's user
SlotConsumed(r) == /\ req[r].pc = "rate_incr"
                   /\ rateCount' = [rateCount EXCEPT ![req[r].user][req[r].rate.at] = @ + 1]

\* the step in which request r is rejected after sanitisation
RejectStep(r) ==
    /\ req[r].pc = "sanitize"
    /\ req'[r].pc = "done"
    /\ req'[r].response.code \in {"EMPTY_MESSAGE", "MALICIOUS_CONTENT"}

\* a rejected request has run both limit checks and both allowed it, the
\* rejection gives no slot back and counts nothing, and a slot once taken
\* stays taken
RejectedAfterBothChecks ==
    /\ \A r \in Slots :
          RejectStep(r) =>
             /\ req'[r].response.status = 400
             /\ req'[r].stages = <<"session", "tier", "rate", "daily">>
             /\ req[r].rate.checked /\ req[r].rate.allowed
             /\ req[r].daily.checked /\ req[r].daily.allowed
             /\ rateCount' = rateCount /\ dailyCount' = dailyCount
    /\ \A u \in PipeUsers : \A w \in 0..MaxWindow : rateCount'[u][w] >= rateCount[u][w]
    /\ (\A r \in Slots : ~UsageStep(r)) => dailyCount' = dailyCount
    /\ \A r \in Slots : UsageStep(r) => Has(req[r].stages, "model")

SomeSearchFlag(intent) ==
    \/ intent.searchOpportunities \/ intent.searchResources
    \/ intent.getUserMatches \/ intent.getOpportunityDetails

\* C23: the restricted intent of a request has searchRequired true only when
\* one of its own flags searchOpportunities, searchResources, getUserMatches,
\* getOpportunityDetails is true, and the context-gathering stage has run only
\* for a request whose restricted intent has one of them set.
C23_SearchRequiredOnlyWithFlag ==
    \A r \in Slots :
        req[r].message \in Messages =>
            /\ RestrictedIntent(req[r]).searchRequired
                  => SomeSearchFlag(RestrictedIntent(req[r]))
            /\ Has(req[r].stages, "context") => SomeSearchFlag(RestrictedIntent(req[r]))


(***************************************************************************)
(* The upsell text of the reply                                           *)
(***************************************************************************)

\* the message asked for opportunities or for personalised matches
AskedPaidFeature(q) ==
    OriginalIntent(q).searchOpportunities \/ OriginalIntent(q).getUserMatches

\* C24 as written: the reply of a request carries upsell text exactly when
\* its user is on the Free tier and the message asked for opportunities or
\* for personalised matches.
C24_AsWritten ==
    \A r \in Slots :
        req[r].returned =>
            (ReplyContent(req[r]).upsell # {}
                <=> (req[r].tier = FREE /\ AskedPaidFeature(req[r])))

\* C24: the reply the model produced carries upsell text exactly when the
\* user is on the Free tier and the message asked for opportunities or for
\* personalised matches, one text per feature asked for; the fallback apology
\* of a failed model call carries none; replies to Premium and Founder users
\* never carry upsell text.
C24_UpsellOnModelReply ==
    \A r \in Slots :
        req[r].returned =>
            LET q == req[r]  reply == ReplyContent(q) IN
            /\ q.tier \in {PREMIUM, FOUNDER} => reply.upsell = {}
            /\ reply.fallback => reply.upsell = {}
            /\ ~reply.fallback =>
                  /\ reply.upsell # {} <=> (q.tier = FREE /\ AskedPaidFeature(q))
                  /\ "opportunities" \in reply.upsell
                        <=> (q.tier = FREE /\ OriginalIntent(q).searchOpportunities)
                  /\ "matches" \in reply.upsell
                        <=> (q.tier = FREE /\ OriginalIntent(q).getUserMatches)

\* the model answered a Free user who asked for personalised matches and the
\* reply carries the matches upsell text
C24_Witness ==
    \E r \in Slots :
        /\ req[r].returned /\ req[r].success /\ req[r].tier = FREE
        /\ req[r].message = "my matches"
        /\ ReplyContent(req[r]).upsell = {"matches"}


(***************************************************************************)
(* Properties of the conversation history                                 *)
(***************************************************************************)

\* the most recent n non-system messages of the conversation, oldest first
MostRecent(roles, n) == LastN(SelectSeq(StoredMessages(roles), NotSystem), n)

Chronological(history) ==
    \A i, j \in DOMAIN history : i < j => history[i].at < history[j].at

\* C25: the history handed to the model for a conversation of the user is the
\* most recent non-system messages of the conversation in chronological
\* order, at most the tier's conversationHistory limit of them; for an id
\* starting with 'temp_' it is empty.
C25_HistoryIsMostRecent ==
    histLast.called =>
        LET limit == TierOfEnum(histLast.tier).limits.conversationHistory IN
        /\ Len(histLast.history) <= limit
        /\ Chronological(histLast.history)
        /\ \A i \in DOMAIN histLast.history : NotSystem(histLast.history[i])
        /\ StartsWithTemp(histLast.conversationId) => histLast.history = <<>>
        /\ (~StartsWithTemp(histLast.conversationId) /\ histLast.found)
              => histLast.history = MostRecent(histConv, limit)


(***************************************************************************)
(* Properties of the lazy table detection                                 *)
(***************************************************************************)

\* C26: initializeTables runs at most once, also for overlapping first calls
\* of ensureTablesInitialized; once a call of ensureTablesInitialized has
\* returned, tables holds a real table or a placeholder for every key of
\* TABLE_VARIATIONS and is not assigned a different value again.
C26_TablesInitializedOnce ==
    [][/\ initRuns' <= 1
       /\ ensReturned =>
             /\ \A k \in TableKeySet : tableRefs[k] \in {RealTable, Placeholder}
             /\ tableRefs' = tableRefs]_vars

====
